---- MODULE Spec2Model ----
(***************************************************************************)
(* Model of the ECS runtime of real-fake-ad-game: the World (entity list,  *)
(* component store, query cache), the systems Game registers, and the      *)
(* frame loop that drives them.                                            *)
(*                                                                         *)
(* The program state is kept in the variables below.  Every routine of the *)
(* source is an operator from a state record (the variables packed by St)  *)
(* to the state record after the call, so that a handler that calls other  *)
(* routines is the composition of their operators.                         *)
(***************************************************************************)
EXTENDS Integers, Sequences, FiniteSets, TLC

VARIABLES
  entities,              \* World.entities: the live entity ids, in creation order
  components,            \* World.components: id -> (component type -> component)
  entityComponentCache,  \* World.entityComponentCache: key -> cached query result
  cacheValid,            \* World.cacheValid
  nextId,                \* Entity.nextId (static, shared by every World)
  systems,               \* World.systems: the registered systems, in order
  lastEnemySpawnTime,    \* SpawnSystem.lastEnemySpawnTime
  lastPowerupSpawnTime,  \* SpawnSystem.lastPowerupSpawnTime
  keyMap,                \* InputSystem.keyMap: the keys whose entry is true
  inputEntity,           \* InputSystem.inputEntity
  animationFrame,        \* Game.animationFrameId and the browser's pending callbacks
  thrown,                \* an exception has escaped a handler
  log,                   \* observation: what the last handler did, in order
  scored,                \* observation: the enemies credited to the score so far
  pre,                   \* observation: the state before the last handler
  ret,                   \* observation: the last call and what it returned
  frames                 \* observation: how many handlers have run World.update

vars == <<entities, components, entityComponentCache, cacheValid, nextId,
          systems, lastEnemySpawnTime, lastPowerupSpawnTime, keyMap,
          inputEntity, animationFrame, thrown, log, scored, pre, ret,
          frames>>

(***************************************************************************)
(* Bounds of the model.                                                    *)
(***************************************************************************)
MaxWorldIds == 2     \* SpecWorld: createEntity is called at most this often

(***************************************************************************)
(* Generic helpers.                                                        *)
(***************************************************************************)
\* A loop over seq: acc is the state before the loop, Op its body.  Each turn's
\* result is computed before the next turn starts (the test next = next makes
\* TLC evaluate it there).
RECURSIVE FoldSeq(_, _, _)
FoldSeq(Op(_, _), acc, seq) ==
  IF seq = <<>> THEN acc
  ELSE LET next == Op(acc, Head(seq))
       IN  IF next = next THEN FoldSeq(Op, next, Tail(seq)) ELSE acc

SeqToSet(seq) == {seq[i] : i \in 1..Len(seq)}

NoComponents == [t \in {} |-> {}]
EmptyCache == [k \in {} |-> <<>>]

Without(f, t) == [u \in DOMAIN f \ {t} |-> f[u]]

(***************************************************************************)
(* The state record the operators work on.                                 *)
(***************************************************************************)
St ==
  [entities |-> entities, components |-> components,
   entityComponentCache |-> entityComponentCache, cacheValid |-> cacheValid,
   nextId |-> nextId, systems |-> systems,
   lastEnemySpawnTime |-> lastEnemySpawnTime,
   lastPowerupSpawnTime |-> lastPowerupSpawnTime,
   keyMap |-> keyMap, inputEntity |-> inputEntity,
   animationFrame |-> animationFrame, thrown |-> thrown,
   log |-> log, scored |-> scored,
   discarded |-> [e \in {} |-> NoComponents]]

\* discarded is the component store of the World that resetGame has replaced
\* during the handler; no handler keeps a reference to it once it returns.
Commit(s) ==
  /\ entities' = s.entities
  /\ components' = s.components
  /\ entityComponentCache' = s.entityComponentCache
  /\ cacheValid' = s.cacheValid
  /\ nextId' = s.nextId
  /\ systems' = s.systems
  /\ lastEnemySpawnTime' = s.lastEnemySpawnTime
  /\ lastPowerupSpawnTime' = s.lastPowerupSpawnTime
  /\ keyMap' = s.keyMap
  /\ inputEntity' = s.inputEntity
  /\ animationFrame' = s.animationFrame
  /\ thrown' = s.thrown
  /\ log' = s.log
  /\ scored' = s.scored

\* One observed event of a handler: what happened, the routine that did it,
\* the entity it happened to, a second entity involved, and a number.
Ev(ev, by, e, other, n) == [ev |-> ev, by |-> by, e |-> e, other |-> other, n |-> n]

Logged(s, ev) == [s EXCEPT !.log = Append(@, ev)]

(***************************************************************************)
(* World (src/src/lib/ecs/World.ts) and Entity (the class at the end of    *)
(* src/src/lib/ecs/System.ts).                                             *)
(***************************************************************************)

\* What createEntity would be if the new entity took the lowest id that no
\* entity of the World holds
createEntityReusingIds(s) ==
  LET id == CHOOSE i \in 0..Len(s.entities) :
              /\ \A j \in 1..Len(s.entities) : s.entities[j] # i
              /\ \A k \in 0..(i - 1) : \E j \in 1..Len(s.entities) : s.entities[j] = k
  IN  [s EXCEPT !.entities = Append(@, id),
                !.components = @ @@ (id :> NoComponents),
                !.cacheValid = FALSE,
                !.nextId = IF id + 1 > @ THEN id + 1 ELSE @]

\* World.createEntity: the new entity has id Entity.nextId (read before the call).
createEntity(s) ==
  [s EXCEPT !.entities = Append(@, s.nextId),
            !.components = @ @@ (s.nextId :> NoComponents),
            !.cacheValid = FALSE,
            !.nextId = @ + 1]

\* What removeEntity would be if it left the entity's component map in place
removeEntityKeepingComponents(s, e) ==
  IF \E i \in 1..Len(s.entities) : s.entities[i] = e
  THEN [s EXCEPT !.entities = SelectSeq(@, LAMBDA x : x # e),
                 !.cacheValid = FALSE]
  ELSE s

\* World.removeEntity
removeEntity(s, e) ==
  IF \E i \in 1..Len(s.entities) : s.entities[i] = e
  THEN [s EXCEPT !.entities = SelectSeq(@, LAMBDA x : x # e),
                 !.components = Without(@, e),
                 !.cacheValid = FALSE]
  ELSE s

\* World.addComponent: c is the component, t its type tag
addComponent(s, e, t, c) ==
  IF e \in DOMAIN s.components
  THEN [s EXCEPT !.components[e] = (t :> c) @@ @,
                 !.cacheValid = FALSE]
  ELSE s

\* World.getComponent: "has a component" and the component itself
hasComponent(s, e, t) ==
  e \in DOMAIN s.components /\ t \in DOMAIN s.components[e]

getComponent(s, e, t) == s.components[e][t]

removeComponentKeepingCache(s, e, t) ==
  IF e \in DOMAIN s.components
  THEN [s EXCEPT !.components[e] = Without(@, t)]
  ELSE s

\* World.removeComponent
removeComponent(s, e, t) ==
  IF e \in DOMAIN s.components
  THEN [s EXCEPT !.components[e] = Without(@, t),
                 !.cacheValid = FALSE]
  ELSE s

\* What refreshCache would be if it marked the cache valid and kept its entries
refreshCacheKeepingEntries(s) ==
  [s EXCEPT !.cacheValid = TRUE]

\* World.refreshCache
refreshCache(s) ==
  [s EXCEPT !.entityComponentCache = EmptyCache, !.cacheValid = TRUE]

\* The filter of World.getEntitiesWith: the live entities holding every type
matchingEntities(s, types) ==
  SelectSeq(s.entities,
            LAMBDA e : e \in DOMAIN s.components
                       /\ types \subseteq DOMAIN s.components[e])

\* World.getEntitiesWith, the state it leaves.  The cache key is the sorted,
\* comma-joined type list; a set of types stands for it (no caller repeats a
\* type, and no type name holds a comma).
afterGetEntitiesWith(s, types) ==
  LET r == IF s.cacheValid THEN s ELSE refreshCache(s)
  IN  IF types \in DOMAIN r.entityComponentCache
      THEN r
      ELSE [r EXCEPT !.entityComponentCache = @ @@ (types :> matchingEntities(r, types))]

\* World.getEntitiesWith, the array it returns
getEntitiesWith(s, types) ==
  afterGetEntitiesWith(s, types).entityComponentCache[types]

NoEntity == -1
NoFrame == [current |-> "none", others |-> 0]
NoStore == [entities |-> <<>>, components |-> <<>>]

(***************************************************************************)
(* Units.  Lengths are pixels.  A frame's deltaTime is a whole number of    *)
(* clock steps, TicksPerSecond of them to the second (a step is 20 ms,     *)
(* about one frame at 60 Hz): an enemy then falls one pixel a step and a   *)
(* bullet climbs eight, as in play.  A distance speed * deltaTime is       *)
(* rounded down to whole pixels (only the powerup's 75 px/s is not whole   *)
(* at one step).  Times the source writes in seconds are kept in seconds   *)
(* and converted where they meet a deltaTime.                              *)
(***************************************************************************)
TicksPerSecond == 50

Seconds(n) == n * TicksPerSecond

\* speed (pixels per second) * deltaTime (clock steps), in pixels
Travel(speed, dt) == (speed * dt) \div TicksPerSecond

Max(a, b) == IF a >= b THEN a ELSE b
Min(a, b) == IF a <= b THEN a ELSE b

(***************************************************************************)
(* Game.config (src/unnamed/part_007, lines 46-53).                        *)
(***************************************************************************)
canvasWidth == 800
canvasHeight == 900
leftSideX == 250
rightSideX == 550
leftSideSpawnInterval == 2
rightSideSpawnInterval == 3

(***************************************************************************)
(* Components (CoreComponents.ts, GameComponents.ts).  A component is the  *)
(* record of the fields the systems read or write; Render, Sprite and      *)
(* Background carry drawing data only and are kept as bare tags.           *)
(***************************************************************************)
PositionComponent(x, y) == [x |-> x, y |-> y]
SizeComponent(w, h) == [width |-> w, height |-> h]
VelocityComponent(sx, sy) == [speedX |-> sx, speedY |-> sy]
HealthComponent(h) == [currentHealth |-> h, maxHealth |-> h]
CollisionComponent(group) == [collidable |-> TRUE, damage |-> 0, collisionGroup |-> group]
BulletCollisionComponent == [collidable |-> TRUE, damage |-> 1, collisionGroup |-> "bullet"]
RenderComponent == [type |-> "Render"]
SpriteComponent == [type |-> "Sprite"]
BackgroundComponent == [type |-> "Background"]
EnemyComponent(kind, points) == [enemyType |-> kind, pointValue |-> points]
PowerupComponent(kind) == [powerupType |-> kind, value |-> 1]
BulletComponent(damage, hit) == [damage |-> damage, hit |-> hit]
TagComponent(tag) == [tag |-> tag]
MultiplierComponent(value) == [value |-> value]
GameStateComponent == [isPaused |-> FALSE, isGameOver |-> FALSE, score |-> 0]

\* The multiplier is kept in hundredths (0.5 is 50), duration and
\* timeRemaining in clock steps; -1 stands for "permanent" as in the source.
CooldownModifierComponent(multiplier, duration, timeRemaining) ==
  [bulletCooldownMultiplier |-> multiplier, duration |-> duration,
   timeRemaining |-> timeRemaining]

\* PlayerComponent declares no score field: until the first "score +=" the
\* field reads undefined, and undefined + n is NaN.
ShootCooldownHundredths == 25
PlayerSpeed == 400
PlayerComponent(offsetX, index) ==
  [offsetX |-> offsetX, speed |-> PlayerSpeed, canShoot |-> TRUE,
   shootCooldown |-> ShootCooldownHundredths, currentShootCooldown |-> 0,
   isMovingLeft |-> FALSE, isMovingRight |-> FALSE, isShooting |-> FALSE,
   playerIndex |-> index, score |-> "undefined"]

InputComponent ==
  [leftPressed |-> FALSE, rightPressed |-> FALSE, upPressed |-> FALSE,
   spacePressed |-> FALSE, singleShotTriggered |-> FALSE,
   justPaused |-> FALSE, justRestarted |-> FALSE]

\* JavaScript's score += n on a field that may be undefined or NaN
AddToScore(score, n) ==
  IF score \in {"undefined", "NaN"} THEN "NaN" ELSE score + n

\* The component object in entity e's slot for type t.  Every addComponent
\* call of the sources is given an object made for it (new XComponent(...) in
\* the argument, or a fresh copy), but for two objects of Game.init: it
\* makes playerSize and playerSprite once, before its loop over the players
\* (part_007 lines 87-88), and attaches them to each player (lines 102 and
\* 106).  No other routine makes an entity with a Player component.  An
\* object is named by the entity and type of its slot; the two objects of
\* Game.init, which are in the slots of several entities, by NoEntity.
InstanceOf(s, e, t) ==
  IF t \in {"Size", "Sprite"} /\ hasComponent(s, e, "Player")
  THEN <<NoEntity, t>>
  ELSE <<e, t>>

\* The entities whose slot for type t holds the object that e's slot holds
HoldersOf(s, e, t) ==
  {x \in DOMAIN s.components :
     hasComponent(s, x, t) /\ InstanceOf(s, x, t) = InstanceOf(s, e, t)}

\* Write one field of a component in place (no World call, the cache stays):
\* the write is to the object, and shows in every slot that holds it.
SetField(s, e, t, c) ==
  IF InstanceOf(s, e, t) = <<e, t>>
  THEN [s EXCEPT !.components[e][t] = c]
  ELSE [s EXCEPT !.components =
          [x \in DOMAIN @ |->
             IF x \in HoldersOf(s, e, t) THEN [@[x] EXCEPT ![t] = c] ELSE @[x]]]

(***************************************************************************)
(* RenderSystem.update: reads the store (one query), draws, writes nothing.*)
(***************************************************************************)
RenderSystemUpdate(s, dt) == afterGetEntitiesWith(s, {"Position", "Size"})

(***************************************************************************)
(* MovementSystem.update                                                   *)
(***************************************************************************)
MoveEntity(s, e, dt) ==
  IF hasComponent(s, e, "Position") /\ hasComponent(s, e, "Velocity")
  THEN LET p == getComponent(s, e, "Position")
           v == getComponent(s, e, "Velocity")
       IN  SetField(s, e, "Position",
                    [p EXCEPT !.x = @ + Travel(v.speedX, dt),
                              !.y = @ + Travel(v.speedY, dt)])
  ELSE s

MovementSystemUpdate(s, dt) ==
  LET s1 == afterGetEntitiesWith(s, {"Position", "Velocity"})
  IN  FoldSeq(LAMBDA a, e : MoveEntity(a, e, dt), s1,
              s1.entityComponentCache[{"Position", "Velocity"}])

(***************************************************************************)
(* CleanupSystem.update                                                    *)
(***************************************************************************)
RemoveAll(s, list, by) ==
  FoldSeq(LAMBDA a, e : Logged(removeEntity(a, e), Ev("removeEntity", by, e, e, 0)),
          s, list)

CleanupKeepingHitBullets(s, dt) ==
  LET s1 == afterGetEntitiesWith(s, {"Health"})
      deadEntities ==
        SelectSeq(s1.entityComponentCache[{"Health"}],
                  LAMBDA e : hasComponent(s1, e, "Health")
                             /\ getComponent(s1, e, "Health").currentHealth <= 0)
  IN  RemoveAll(s1, deadEntities, "CleanupSystem")

CleanupSystemUpdate(s, dt) ==
  LET s1 == afterGetEntitiesWith(s, {"Health"})
      deadEntities ==
        SelectSeq(s1.entityComponentCache[{"Health"}],
                  LAMBDA e : hasComponent(s1, e, "Health")
                             /\ getComponent(s1, e, "Health").currentHealth <= 0)
      s2 == RemoveAll(s1, deadEntities, "CleanupSystem")
      s3 == afterGetEntitiesWith(s2, {"Bullet"})
      hitBullets ==
        SelectSeq(s3.entityComponentCache[{"Bullet"}],
                  LAMBDA e : hasComponent(s3, e, "Bullet")
                             /\ getComponent(s3, e, "Bullet").hit)
  IN  RemoveAll(s3, hitBullets, "CleanupSystem")

(***************************************************************************)
(* SpawnSystem (src/unnamed/part_004)                                      *)
(***************************************************************************)
EnemySize == 30
EnemySpawnY == -30
EnemySpeedY == 50
EnemyPointValue == 10
PowerupSpeedY == 75
LaneHalfWidth == 15
SpawnHealth == 1

PowerupTypes == {"basic", "rapidFire", "superRapidFire", "normalizedFire"}

AddAll(s, e, comps) ==
  FoldSeq(LAMBDA a, tc : addComponent(a, e, tc[1], tc[2]), s, comps)

\* lines 86-98: the components of an enemy, at (x, y)
EnemyBundle(x, y) ==
  << <<"Position", PositionComponent(x, y)>>,
     <<"Size", SizeComponent(EnemySize, EnemySize)>>,
     <<"Velocity", VelocityComponent(0, EnemySpeedY)>>,
     <<"Render", RenderComponent>>,
     <<"Health", HealthComponent(SpawnHealth)>>,
     <<"Collision", CollisionComponent("enemy")>>,
     <<"Enemy", EnemyComponent("basic", EnemyPointValue)>> >>

\* lines 133-145: the components of a powerup, at (x, y)
PowerupBundle(x, y, powerupType) ==
  << <<"Position", PositionComponent(x, y)>>,
     <<"Size", SizeComponent(EnemySize, EnemySize)>>,
     <<"Velocity", VelocityComponent(0, PowerupSpeedY)>>,
     <<"Render", RenderComponent>>,
     <<"Health", HealthComponent(SpawnHealth)>>,
     <<"Collision", CollisionComponent("powerup")>>,
     <<"Powerup", PowerupComponent(powerupType)>> >>

\* A new entity with the given components
Created(s, comps) == AddAll(createEntity(s), s.nextId, comps)

spawnEnemy(s) ==
  Logged(Created(s, EnemyBundle(leftSideX - LaneHalfWidth, EnemySpawnY)),
         Ev("spawn", "spawnEnemy", s.nextId, s.nextId, 0))

\* powerupType is the subtype Math.random picks
spawnPowerup(s, powerupType) ==
  Logged(Created(s, PowerupBundle(rightSideX - LaneHalfWidth, EnemySpawnY, powerupType)),
         Ev("spawn", "spawnPowerup", s.nextId, s.nextId, 0))

\* "accumulator > interval" (interval in seconds)
SpawnDueAtInterval(accumulator, interval) == accumulator >= Seconds(interval)

SpawnDue(accumulator, interval) == accumulator > Seconds(interval)

\* the accumulator after a spawn
AccumulatorKeepingExcess(accumulator, interval) == accumulator - Seconds(interval)

AccumulatorAfterSpawn(accumulator, interval) == 0

\* What SpawnSystem.update would be if it returned early only when the game
\* is over, and counted the time of a paused game
SpawnSystemUpdateCountingPaused(s, dt, powerupType) ==
  LET s1 == afterGetEntitiesWith(s, {"GameState"})
      gameStateEntities == s1.entityComponentCache[{"GameState"}]
  IN  IF gameStateEntities = <<>> THEN s1
      ELSE LET gameState == getComponent(s1, gameStateEntities[1], "GameState")
           IN  IF gameState.isGameOver THEN s1
               ELSE LET e1 == s1.lastEnemySpawnTime + dt
                        s2 == IF SpawnDue(e1, leftSideSpawnInterval)
                              THEN [spawnEnemy(s1) EXCEPT !.lastEnemySpawnTime =
                                      AccumulatorAfterSpawn(e1, leftSideSpawnInterval)]
                              ELSE [s1 EXCEPT !.lastEnemySpawnTime = e1]
                        p1 == s2.lastPowerupSpawnTime + dt
                    IN  IF SpawnDue(p1, rightSideSpawnInterval)
                        THEN [spawnPowerup(s2, powerupType) EXCEPT !.lastPowerupSpawnTime =
                                AccumulatorAfterSpawn(p1, rightSideSpawnInterval)]
                        ELSE [s2 EXCEPT !.lastPowerupSpawnTime = p1]

SpawnSystemUpdate(s, dt, powerupType) ==
  LET s1 == afterGetEntitiesWith(s, {"GameState"})
      gameStateEntities == s1.entityComponentCache[{"GameState"}]
  IN  IF gameStateEntities = <<>> THEN s1
      ELSE LET gameState == getComponent(s1, gameStateEntities[1], "GameState")
           IN  IF gameState.isPaused \/ gameState.isGameOver THEN s1
               ELSE LET e1 == s1.lastEnemySpawnTime + dt
                        s2 == IF SpawnDue(e1, leftSideSpawnInterval)
                              THEN [spawnEnemy(s1) EXCEPT !.lastEnemySpawnTime =
                                      AccumulatorAfterSpawn(e1, leftSideSpawnInterval)]
                              ELSE [s1 EXCEPT !.lastEnemySpawnTime = e1]
                        p1 == s2.lastPowerupSpawnTime + dt
                    IN  IF SpawnDue(p1, rightSideSpawnInterval)
                        THEN [spawnPowerup(s2, powerupType) EXCEPT !.lastPowerupSpawnTime =
                                AccumulatorAfterSpawn(p1, rightSideSpawnInterval)]
                        ELSE [s2 EXCEPT !.lastPowerupSpawnTime = p1]

(***************************************************************************)
(* PowerupSystem (src/unnamed/part_003, lines 1-97)                        *)
(***************************************************************************)
RapidFireSeconds == 15
RapidFireMultiplier == 50
SuperRapidFireMultiplier == 25

\* What updateCooldownModifier would be if it counted the time down and left
\* the expired modifier on its entity
updateCooldownModifierKeepingExpired(s, e, dt) ==
  IF ~hasComponent(s, e, "CooldownModifier") THEN s
  ELSE LET m == getComponent(s, e, "CooldownModifier")
       IN  IF m.timeRemaining > 0
           THEN SetField(s, e, "CooldownModifier",
                         [m EXCEPT !.timeRemaining = @ - dt])
           ELSE s

\* What updateCooldownModifier would be if it counted down every modifier,
\* the permanent ones included
updateCooldownModifierCountingPermanent(s, e, dt) ==
  IF ~hasComponent(s, e, "CooldownModifier") THEN s
  ELSE LET m == getComponent(s, e, "CooldownModifier")
           s1 == SetField(s, e, "CooldownModifier",
                          [m EXCEPT !.timeRemaining = @ - dt])
       IN  IF m.timeRemaining - dt <= 0
           THEN removeComponent(s1, e, "CooldownModifier")
           ELSE s1

updateCooldownModifier(s, e, dt) ==
  IF ~hasComponent(s, e, "CooldownModifier") THEN s
  ELSE LET m == getComponent(s, e, "CooldownModifier")
       IN  IF m.timeRemaining > 0
           THEN LET s1 == SetField(s, e, "CooldownModifier",
                                   [m EXCEPT !.timeRemaining = @ - dt])
                IN  IF m.timeRemaining - dt <= 0
                    THEN removeComponent(s1, e, "CooldownModifier")
                    ELSE s1
           ELSE s

PowerupSystemUpdate(s, dt) ==
  LET s1 == afterGetEntitiesWith(s, {"CooldownModifier"})
  IN  FoldSeq(LAMBDA a, e : updateCooldownModifier(a, e, dt), s1,
              s1.entityComponentCache[{"CooldownModifier"}])

applyRapidFirePowerup(s, e, duration, multiplier) ==
  LET fresh == CooldownModifierComponent(multiplier, duration, duration)
  IN  IF hasComponent(s, e, "CooldownModifier")
      THEN IF multiplier < getComponent(s, e, "CooldownModifier").bulletCooldownMultiplier
           THEN addComponent(removeComponent(s, e, "CooldownModifier"),
                             e, "CooldownModifier", fresh)
           ELSE s
      ELSE addComponent(s, e, "CooldownModifier", fresh)

\* What processPowerup would be if a subtype it does not know were treated as
\* normalizedFire
processPowerupNormalizingUnknown(s, playerEntity, powerupEntity) ==
  IF ~hasComponent(s, powerupEntity, "Powerup") THEN s
  ELSE LET kind == getComponent(s, powerupEntity, "Powerup").powerupType
       IN  CASE kind = "superRapidFire" ->
                  applyRapidFirePowerup(s, playerEntity, Seconds(RapidFireSeconds),
                                        SuperRapidFireMultiplier)
             [] kind = "rapidFire" ->
                  applyRapidFirePowerup(s, playerEntity, Seconds(RapidFireSeconds),
                                        RapidFireMultiplier)
             [] OTHER ->
                  IF hasComponent(s, playerEntity, "CooldownModifier")
                  THEN removeComponent(s, playerEntity, "CooldownModifier")
                  ELSE s

\* What processPowerup would be if normalizedFire removed timed modifiers only
processPowerupKeepingPermanent(s, playerEntity, powerupEntity) ==
  IF ~hasComponent(s, powerupEntity, "Powerup") THEN s
  ELSE LET kind == getComponent(s, powerupEntity, "Powerup").powerupType
       IN  CASE kind = "superRapidFire" ->
                  applyRapidFirePowerup(s, playerEntity, Seconds(RapidFireSeconds),
                                        SuperRapidFireMultiplier)
             [] kind = "rapidFire" ->
                  applyRapidFirePowerup(s, playerEntity, Seconds(RapidFireSeconds),
                                        RapidFireMultiplier)
             [] kind = "normalizedFire" ->
                  IF hasComponent(s, playerEntity, "CooldownModifier")
                     /\ getComponent(s, playerEntity, "CooldownModifier").timeRemaining > 0
                  THEN removeComponent(s, playerEntity, "CooldownModifier")
                  ELSE s
             [] OTHER -> s

processPowerup(s, playerEntity, powerupEntity) ==
  IF ~hasComponent(s, powerupEntity, "Powerup") THEN s
  ELSE LET kind == getComponent(s, powerupEntity, "Powerup").powerupType
       IN  CASE kind = "superRapidFire" ->
                  applyRapidFirePowerup(s, playerEntity, Seconds(RapidFireSeconds),
                                        SuperRapidFireMultiplier)
             [] kind = "rapidFire" ->
                  applyRapidFirePowerup(s, playerEntity, Seconds(RapidFireSeconds),
                                        RapidFireMultiplier)
             [] kind = "normalizedFire" ->
                  IF hasComponent(s, playerEntity, "CooldownModifier")
                  THEN removeComponent(s, playerEntity, "CooldownModifier")
                  ELSE s
             [] OTHER -> s

(***************************************************************************)
(* InputSystem (src/unnamed/part_003, lines 99-179)                        *)
(***************************************************************************)
InputSystemUpdate(s, dt) ==
  IF s.inputEntity = NoEntity \/ ~hasComponent(s, s.inputEntity, "Input") THEN s
  ELSE LET c == getComponent(s, s.inputEntity, "Input")
           up == "ArrowUp" \in s.keyMap \/ "w" \in s.keyMap
           c1 == [c EXCEPT
                    !.leftPressed = "ArrowLeft" \in s.keyMap \/ "a" \in s.keyMap,
                    !.rightPressed = "ArrowRight" \in s.keyMap \/ "d" \in s.keyMap,
                    !.upPressed = up,
                    !.spacePressed = " " \in s.keyMap,
                    !.justPaused = @ \/ "p" \in s.keyMap,
                    !.justRestarted = @ \/ "r" \in s.keyMap,
                    !.singleShotTriggered = @ \/ up]
       IN  [SetField(s, s.inputEntity, "Input", c1) EXCEPT !.keyMap = @ \ {"p", "r"}]

\* InputSystem.resetTriggers and InputComponent.resetTriggers
resetTriggers(s) ==
  IF s.inputEntity = NoEntity \/ ~hasComponent(s, s.inputEntity, "Input") THEN s
  ELSE SetField(s, s.inputEntity, "Input",
                [getComponent(s, s.inputEntity, "Input") EXCEPT
                   !.singleShotTriggered = FALSE,
                   !.justPaused = FALSE,
                   !.justRestarted = FALSE])

(***************************************************************************)
(* PlayerSystem (src/unnamed/part_005, lines 1-167)                        *)
(***************************************************************************)
BulletSize == 10
BulletSpeedY == -400
BulletDamage == 1

\* lines 143-148: the components of a bullet, at (x, y)
BulletBundle(x, y) ==
  << <<"Position", PositionComponent(x, y)>>,
     <<"Size", SizeComponent(BulletSize, BulletSize)>>,
     <<"Velocity", VelocityComponent(0, BulletSpeedY)>>,
     <<"Render", RenderComponent>>,
     <<"Collision", BulletCollisionComponent>>,
     <<"Bullet", BulletComponent(BulletDamage, FALSE)>> >>

\* What shoot would be if it left canShoot set
shootKeepingCanShoot(s, playerEntity) ==
  IF ~( hasComponent(s, playerEntity, "Position")
        /\ hasComponent(s, playerEntity, "Size")
        /\ hasComponent(s, playerEntity, "Player")
        /\ getComponent(s, playerEntity, "Player").canShoot )
  THEN s
  ELSE LET playerPos == getComponent(s, playerEntity, "Position")
           playerSize == getComponent(s, playerEntity, "Size")
           bulletX == playerPos.x + playerSize.width \div 2 - BulletSize \div 2
       IN  Logged(Created(s, BulletBundle(bulletX, playerPos.y)),
                  Ev("shoot", "shoot", s.nextId, playerEntity, 0))

\* PlayerSystem.shoot
shoot(s, playerEntity) ==
  IF ~( hasComponent(s, playerEntity, "Position")
        /\ hasComponent(s, playerEntity, "Size")
        /\ hasComponent(s, playerEntity, "Player")
        /\ getComponent(s, playerEntity, "Player").canShoot )
  THEN s
  ELSE LET playerPos == getComponent(s, playerEntity, "Position")
           playerSize == getComponent(s, playerEntity, "Size")
           s1 == SetField(s, playerEntity, "Player",
                          [getComponent(s, playerEntity, "Player") EXCEPT
                             !.canShoot = FALSE, !.currentShootCooldown = 0])
           bulletX == playerPos.x + playerSize.width \div 2 - BulletSize \div 2
       IN  Logged(Created(s1, BulletBundle(bulletX, playerPos.y)),
                  Ev("shoot", "shoot", s1.nextId, playerEntity, 0))

\* PlayerSystem.updateCooldownModifiers
updateCooldownModifiers(s, playerEntity, dt) ==
  IF hasComponent(s, playerEntity, "CooldownModifier")
     /\ getComponent(s, playerEntity, "CooldownModifier").timeRemaining > 0
  THEN LET m == getComponent(s, playerEntity, "CooldownModifier")
           left == Max(0, m.timeRemaining - dt)
           s1 == SetField(s, playerEntity, "CooldownModifier",
                          [m EXCEPT !.timeRemaining = left])
       IN  IF left = 0 THEN removeComponent(s1, playerEntity, "CooldownModifier")
           ELSE s1
  ELSE s

\* The body of PlayerSystem.update's loop, for one player
UpdatePlayer(s, playerEntity, input, dt) ==
  IF ~( hasComponent(s, playerEntity, "Player")
        /\ hasComponent(s, playerEntity, "Position")
        /\ hasComponent(s, playerEntity, "Size") )
  THEN s
  ELSE LET c0 == getComponent(s, playerEntity, "Player")
           playerPos == getComponent(s, playerEntity, "Position")
           playerSize == getComponent(s, playerEntity, "Size")
           dx == (IF input.leftPressed THEN 0 - Travel(c0.speed, dt) ELSE 0)
                 + (IF input.rightPressed THEN Travel(c0.speed, dt) ELSE 0)
           newX == Max(0, Min(canvasWidth - playerSize.width, playerPos.x + dx))
           cooled == ~c0.canShoot
                     /\ (c0.currentShootCooldown + dt) * 100
                          >= c0.shootCooldown * TicksPerSecond
           c1 == [c0 EXCEPT
                    !.isMovingLeft = input.leftPressed,
                    !.isMovingRight = input.rightPressed,
                    !.isShooting = input.spacePressed,
                    !.canShoot = @ \/ cooled,
                    !.currentShootCooldown =
                       IF c0.canShoot THEN @ ELSE IF cooled THEN 0 ELSE @ + dt]
           s1 == SetField(SetField(s, playerEntity, "Player", c1),
                          playerEntity, "Position", [playerPos EXCEPT !.x = newX])
           s2 == IF c1.isShooting /\ c1.canShoot THEN shoot(s1, playerEntity) ELSE s1
           s3 == IF input.singleShotTriggered
                    /\ getComponent(s2, playerEntity, "Player").canShoot
                 THEN shoot(s2, playerEntity)
                 ELSE s2
       IN  updateCooldownModifiers(s3, playerEntity, dt)

PlayerSystemUpdate(s, dt) ==
  LET s1 == afterGetEntitiesWith(s, {"GameState"})
      gameStateEntities == s1.entityComponentCache[{"GameState"}]
  IN  IF gameStateEntities = <<>> THEN s1
      ELSE LET gameState == getComponent(s1, gameStateEntities[1], "GameState")
           IN  IF gameState.isPaused \/ gameState.isGameOver THEN s1
               ELSE LET s2 == afterGetEntitiesWith(s1, {"Input"})
                        inputEntities == s2.entityComponentCache[{"Input"}]
                    IN  IF inputEntities = <<>> THEN s2
                        ELSE LET input == getComponent(s2, inputEntities[1], "Input")
                                 s3 == afterGetEntitiesWith(s2, {"Player", "Position", "Size"})
                             IN  FoldSeq(LAMBDA a, e : UpdatePlayer(a, e, input, dt), s3,
                                         s3.entityComponentCache[{"Player", "Position", "Size"}])

(***************************************************************************)
(* CollisionSystem (src/src/lib/ecs/systems/CollisionSystem.ts, the class  *)
(* that starts at line 281)                                                *)
(***************************************************************************)

\* No Entity: what [0] of an empty array, or a failed search, gives
FirstIndex(list, P(_)) ==
  IF \E i \in 1..Len(list) : P(list[i])
  THEN CHOOSE i \in 1..Len(list) : P(list[i]) /\ \A j \in 1..(i - 1) : ~P(list[j])
  ELSE 0

Throw(s, by) == [Logged(s, Ev("throw", by, NoEntity, NoEntity, 0)) EXCEPT !.thrown = TRUE]

\* CollisionSystem.isColliding
\* What isColliding would be if rectangles that share an edge overlapped
isCollidingAtEdges(pos1, size1, pos2, size2) ==
  /\ pos1.x <= pos2.x + size2.width
  /\ pos1.x + size1.width >= pos2.x
  /\ pos1.y <= pos2.y + size2.height
  /\ pos1.y + size1.height >= pos2.y

isColliding(pos1, size1, pos2, size2) ==
  /\ pos1.x < pos2.x + size2.width
  /\ pos1.x + size1.width > pos2.x
  /\ pos1.y < pos2.y + size2.height
  /\ pos1.y + size1.height > pos2.y

HasBox(s, e) == hasComponent(s, e, "Position") /\ hasComponent(s, e, "Size")

Overlap(s, a, b) ==
  isColliding(getComponent(s, a, "Position"), getComponent(s, a, "Size"),
              getComponent(s, b, "Position"), getComponent(s, b, "Size"))

BulletKey == {"Bullet", "Position", "Size", "Collision"}
EnemyKey == {"Enemy", "Position", "Size", "Collision", "Health"}
PowerupKey == {"Powerup", "Position", "Size", "Collision", "Health"}
PlayerKey == {"Player", "Position", "Size", "Collision"}

\* What the damage of a hit would be if the bullet were not marked as hit
DamagedKeepingBullet(s, target, bulletEntity) ==
  LET h == getComponent(s, target, "Health")
      b == getComponent(s, bulletEntity, "Bullet")
  IN  Logged(SetField(s, target, "Health",
                      [h EXCEPT !.currentHealth = @ - b.damage]),
             Ev("damage", "checkBulletCollisions", target, bulletEntity, b.damage))

Damaged(s, target, bulletEntity) ==
  LET h == getComponent(s, target, "Health")
      b == getComponent(s, bulletEntity, "Bullet")
  IN  Logged(SetField(SetField(s, target, "Health",
                               [h EXCEPT !.currentHealth = @ - b.damage]),
                      bulletEntity, "Bullet", [b EXCEPT !.hit = TRUE]),
             Ev("damage", "checkBulletCollisions", target, bulletEntity, b.damage))

\* lines 419-431: the score of a destroyed enemy goes to the first player
ScoreEnemy(s, enemyEntity, bulletEntity) ==
  IF getComponent(s, enemyEntity, "Health").currentHealth <= 0
  THEN LET s1 == afterGetEntitiesWith(s, {"Player"})
           players == s1.entityComponentCache[{"Player"}]
       IN  IF hasComponent(s1, enemyEntity, "Enemy") /\ players # <<>>
              /\ hasComponent(s1, players[1], "Player")
           THEN LET points == getComponent(s1, enemyEntity, "Enemy").pointValue
                    p == getComponent(s1, players[1], "Player")
                    s2 == SetField(s1, players[1], "Player",
                                   [p EXCEPT !.score = AddToScore(@, points)])
                IN  [Logged(s2, Ev("score", "checkBulletCollisions",
                                   enemyEntity, bulletEntity, points))
                       EXCEPT !.scored = Append(@, enemyEntity)]
           ELSE s1
  ELSE s

\* What the application of a destroyed powerup would be if it went to the
\* first player only
ApplyDestroyedPowerupToFirst(s, powerupEntity) ==
  IF getComponent(s, powerupEntity, "Health").currentHealth <= 0
     /\ \E i \in 1..Len(s.systems) : s.systems[i] = "PowerupSystem"
  THEN LET s1 == afterGetEntitiesWith(s, PlayerKey)
       IN  FoldSeq(LAMBDA a, p :
                     Logged(processPowerup(a, p, powerupEntity),
                            Ev("processPowerup", "checkBulletCollisions",
                               p, powerupEntity, 0)),
                   s1, SubSeq(s1.entityComponentCache[PlayerKey], 1, 1))
  ELSE s

\* What the application of a destroyed powerup would be if it did not ask
\* whether a PowerupSystem is registered
ApplyDestroyedPowerupUnguarded(s, powerupEntity) ==
  IF getComponent(s, powerupEntity, "Health").currentHealth <= 0
  THEN LET s1 == afterGetEntitiesWith(s, PlayerKey)
       IN  FoldSeq(LAMBDA a, p :
                     Logged(processPowerup(a, p, powerupEntity),
                            Ev("processPowerup", "checkBulletCollisions",
                               p, powerupEntity, 0)),
                   s1, s1.entityComponentCache[PlayerKey])
  ELSE s

\* lines 448-463: a destroyed powerup is applied to every player
ApplyDestroyedPowerup(s, powerupEntity) ==
  IF getComponent(s, powerupEntity, "Health").currentHealth <= 0
     /\ \E i \in 1..Len(s.systems) : s.systems[i] = "PowerupSystem"
  THEN LET s1 == afterGetEntitiesWith(s, PlayerKey)
       IN  FoldSeq(LAMBDA a, p :
                     Logged(processPowerup(a, p, powerupEntity),
                            Ev("processPowerup", "checkBulletCollisions",
                               p, powerupEntity, 0)),
                   s1, s1.entityComponentCache[PlayerKey])
  ELSE s

\* The body of checkBulletCollisions' outer loop, for one bullet
BulletStep(s, bulletEntity, enemies, powerups) ==
  IF ~hasComponent(s, bulletEntity, "Bullet") THEN s
  ELSE IF getComponent(s, bulletEntity, "Bullet").hit THEN s
  ELSE IF ~HasBox(s, bulletEntity) THEN s
  ELSE LET hits(t) == HasBox(s, t) /\ hasComponent(s, t, "Health")
                      /\ Overlap(s, bulletEntity, t)
           i == FirstIndex(enemies, hits)
           j == FirstIndex(powerups, hits)
       IN  IF i # 0
           THEN ScoreEnemy(Damaged(s, enemies[i], bulletEntity), enemies[i], bulletEntity)
           ELSE IF j # 0
           THEN ApplyDestroyedPowerup(Damaged(s, powerups[j], bulletEntity), powerups[j])
           ELSE s

checkBulletCollisions(s) ==
  LET s1 == afterGetEntitiesWith(s, BulletKey)
      s2 == afterGetEntitiesWith(s1, EnemyKey)
      s3 == afterGetEntitiesWith(s2, PowerupKey)
      enemies == s2.entityComponentCache[EnemyKey]
      powerups == s3.entityComponentCache[PowerupKey]
  IN  FoldSeq(LAMBDA a, b : BulletStep(a, b, enemies, powerups), s3,
              s1.entityComponentCache[BulletKey])

checkPlayerPowerupCollisions(s) ==
  LET s1 == afterGetEntitiesWith(s, PlayerKey)
      s2 == afterGetEntitiesWith(s1, {"Powerup", "Position", "Size", "Collision"})
      players == s1.entityComponentCache[PlayerKey]
      powerups == s2.entityComponentCache[{"Powerup", "Position", "Size", "Collision"}]
  IN  IF players = <<>> \/ powerups = <<>> THEN s2
      ELSE LET playerEntity == players[1]
               runsOver(a, p) == HasBox(a, p) /\ hasComponent(a, p, "Powerup")
                                 /\ hasComponent(a, p, "Health")
                                 /\ Overlap(a, playerEntity, p)
           IN  IF ~HasBox(s2, playerEntity) THEN s2
               ELSE FoldSeq(LAMBDA a, p :
                              IF a.thrown \/ ~runsOver(a, p) THEN a
                              ELSE IF hasComponent(a, playerEntity, "Health")
                              THEN SetField(a, playerEntity, "Health",
                                            [getComponent(a, playerEntity, "Health")
                                               EXCEPT !.currentHealth = 0])
                              ELSE Throw(a, "checkPlayerPowerupCollisions"),
                            s2, powerups)

\* What the off-screen test would be if touching an edge of the playfield
\* from outside counted as off screen
IsOffscreenAtEdges(position, size) ==
  \/ position.y >= canvasHeight
  \/ position.y + size.height <= 0
  \/ position.x >= canvasWidth
  \/ position.x + size.width <= 0

\* lines 518-523: the entity is completely off screen
IsOffscreen(position, size) ==
  \/ position.y > canvasHeight
  \/ position.y + size.height < 0
  \/ position.x > canvasWidth
  \/ position.x + size.width < 0

RemoveOffscreen(s, e) ==
  IF ~HasBox(s, e) THEN s
  ELSE IF ~IsOffscreen(getComponent(s, e, "Position"), getComponent(s, e, "Size")) THEN s
  ELSE Logged(removeEntity(s, e), Ev("removeEntity", "checkOffscreenEntities", e, e, 0))

\* lines 510-541: the body of checkOffscreenEntities' loop, for one entity
MarkOffscreen(s, e) ==
  IF ~HasBox(s, e) THEN s
  ELSE IF ~IsOffscreen(getComponent(s, e, "Position"), getComponent(s, e, "Size")) THEN s
  ELSE LET s1 == IF hasComponent(s, e, "Bullet")
                 THEN SetField(s, e, "Bullet",
                               [getComponent(s, e, "Bullet") EXCEPT !.hit = TRUE])
                 ELSE s
       IN  IF (hasComponent(s1, e, "Enemy") \/ hasComponent(s1, e, "Powerup"))
              /\ hasComponent(s1, e, "Health")
           THEN SetField(s1, e, "Health",
                         [getComponent(s1, e, "Health") EXCEPT !.currentHealth = 0])
           ELSE s1

checkOffscreenEntities(s) ==
  LET s1 == afterGetEntitiesWith(s, {"Position", "Size"})
  IN  FoldSeq(MarkOffscreen, s1, s1.entityComponentCache[{"Position", "Size"}])

\* What checkEnemyReachedBottom would be if it wrote to isGameOver in every
\* tick whether an enemy is at the bottom
checkEnemyReachedBottomEachTick(s) ==
  LET s1 == afterGetEntitiesWith(s, {"Enemy", "Position", "Size"})
      s2 == afterGetEntitiesWith(s1, {"Tag"})
      enemies == s1.entityComponentCache[{"Enemy", "Position", "Size"}]
      tagged == s2.entityComponentCache[{"Tag"}]
      g == FirstIndex(tagged, LAMBDA e : hasComponent(s2, e, "Tag")
                                         /\ getComponent(s2, e, "Tag").tag = "gameState")
  IN  IF g = 0 THEN s2
      ELSE LET s3 == afterGetEntitiesWith(s2, {"Player", "Size"})
               players == s3.entityComponentCache[{"Player", "Size"}]
           IN  IF players = <<>> THEN Throw(s3, "checkEnemyReachedBottom")
               ELSE LET playerSize == getComponent(s3, players[1], "Size")
                        k == FirstIndex(enemies,
                               LAMBDA e : HasBox(s3, e)
                                 /\ getComponent(s3, e, "Position").y
                                      + getComponent(s3, e, "Size").height
                                      - playerSize.height >= canvasHeight)
                    IN  IF hasComponent(s3, tagged[g], "GameState")
                        THEN SetField(s3, tagged[g], "GameState",
                                      [getComponent(s3, tagged[g], "GameState")
                                         EXCEPT !.isGameOver = (k # 0)])
                        ELSE s3

checkEnemyReachedBottom(s) ==
  LET s1 == afterGetEntitiesWith(s, {"Enemy", "Position", "Size"})
      s2 == afterGetEntitiesWith(s1, {"Tag"})
      enemies == s1.entityComponentCache[{"Enemy", "Position", "Size"}]
      tagged == s2.entityComponentCache[{"Tag"}]
      g == FirstIndex(tagged, LAMBDA e : hasComponent(s2, e, "Tag")
                                         /\ getComponent(s2, e, "Tag").tag = "gameState")
  IN  IF g = 0 THEN s2
      ELSE LET s3 == afterGetEntitiesWith(s2, {"Player", "Size"})
               players == s3.entityComponentCache[{"Player", "Size"}]
           IN  IF players = <<>> THEN Throw(s3, "checkEnemyReachedBottom")
               ELSE LET playerSize == getComponent(s3, players[1], "Size")
                        k == FirstIndex(enemies,
                               LAMBDA e : HasBox(s3, e)
                                 /\ getComponent(s3, e, "Position").y
                                      + getComponent(s3, e, "Size").height
                                      - playerSize.height >= canvasHeight)
                    IN  IF k # 0 /\ hasComponent(s3, tagged[g], "GameState")
                        THEN SetField(s3, tagged[g], "GameState",
                                      [getComponent(s3, tagged[g], "GameState")
                                         EXCEPT !.isGameOver = TRUE])
                        ELSE s3

(***************************************************************************)
(* World.cloneEntity is called by the multiplier phase and is not among    *)
(* the sources; it is modelled from the specification: "create exactly N   *)
(* new entities that are full copies of the original's component set"      *)
(* (section 4.5, step 6), a "component-set deep copy" (section 9).         *)
(***************************************************************************)
cloneEntity(s, e) ==
  LET clone == s.nextId
  IN  [createEntity(s) EXCEPT !.components[clone] = s.components[e]]

ExitGap == 2

\* lines 326-327
isCollidedFromBottom(multiplierPos, multiplierSize, collidablePos, collidableSize) ==
  collidablePos.y + collidableSize.height <= multiplierPos.y + multiplierSize.height

exitYWithoutHeight(multiplierPos, multiplierSize, collidablePos, collidableSize) ==
  IF isCollidedFromBottom(multiplierPos, multiplierSize, collidablePos, collidableSize)
  THEN multiplierPos.y + multiplierSize.height + ExitGap
  ELSE multiplierPos.y - multiplierSize.height - ExitGap

\* lines 331-333
exitY(multiplierPos, multiplierSize, collidablePos, collidableSize) ==
  IF isCollidedFromBottom(multiplierPos, multiplierSize, collidablePos, collidableSize)
  THEN multiplierPos.y + multiplierSize.height + ExitGap
  ELSE multiplierPos.y - multiplierSize.height - collidableSize.height - ExitGap

\* lines 352-367: the x of clone number i (0-based); clone 0 keeps the x it copied
CloneX(i, multiplierPos, multiplierSize, collidablePos, collidableSize) ==
  LET spacing == 2 * collidableSize.width
      startX == collidablePos.x + spacing
      newX == startX + i * (collidableSize.width + spacing)
  IN  IF i = 0 THEN collidablePos.x
      ELSE IF newX > multiplierPos.x + multiplierSize.width
      THEN multiplierPos.x + multiplierSize.width
      ELSE IF newX < multiplierPos.x THEN multiplierPos.x
      ELSE newX

\* lines 330-370: one turn of the cloning loop
MakeClone(s, i, multiplier, collidable, mPos, mSize, cPos, cSize) ==
  LET clone == s.nextId
      s1 == Logged(cloneEntity(s, collidable),
                   Ev("clone", "checkCollisionsWithMultiplier", clone, collidable, i))
  IN  IF ~HasBox(s1, clone)
      THEN Logged(removeEntity(s1, clone),
                  Ev("removeEntity", "checkCollisionsWithMultiplier", clone, clone, 0))
      ELSE SetField(s1, clone, "Position",
                    [getComponent(s1, clone, "Position") EXCEPT
                       !.x = CloneX(i, mPos, mSize, cPos, cSize),
                       !.y = exitY(mPos, mSize, cPos, cSize)])

CloneIndicesOneShort(value) == [i \in 1..(value - 1) |-> i]

\* line 330: for (let i = 0; i < value; i++)
CloneIndices(value) == [i \in 1..value |-> i - 1]

\* lines 324-377: the zone consumes one collidable
Multiply(s, multiplier, collidable) ==
  LET mPos == getComponent(s, multiplier, "Position")
      mSize == getComponent(s, multiplier, "Size")
      cPos == getComponent(s, collidable, "Position")
      cSize == getComponent(s, collidable, "Size")
      value == getComponent(s, multiplier, "Multiplier").value
      s1 == FoldSeq(LAMBDA a, i :
                      MakeClone(a, i, multiplier, collidable, mPos, mSize, cPos, cSize),
                    Logged(s, Ev("multiply", "checkCollisionsWithMultiplier",
                                 collidable, multiplier, value)),
                    CloneIndices(value))
  IN  Logged(removeEntity(s1, collidable),
             Ev("removeEntity", "checkCollisionsWithMultiplier", collidable, multiplier, 0))

\* lines 316-378: the first collidable of the list that overlaps the zone, or 0
ZoneTarget(s, multiplier, collidables) ==
  FirstIndex(collidables,
             LAMBDA c : c # multiplier /\ HasBox(s, c) /\ Overlap(s, multiplier, c))

ZoneStepEveryTarget(s, multiplier, collidables) ==
  IF ~( hasComponent(s, multiplier, "Multiplier") /\ HasBox(s, multiplier) ) THEN s
  ELSE FoldSeq(LAMBDA a, c :
                 IF c # multiplier /\ HasBox(a, c) /\ HasBox(a, multiplier)
                    /\ Overlap(a, multiplier, c)
                 THEN Multiply(a, multiplier, c) ELSE a,
               s, collidables)

\* The body of checkCollisionsWithMultiplier's outer loop, for one zone
ZoneStep(s, multiplier, collidables) ==
  IF ~( hasComponent(s, multiplier, "Multiplier") /\ HasBox(s, multiplier) ) THEN s
  ELSE LET k == ZoneTarget(s, multiplier, collidables)
       IN  IF k = 0 THEN s ELSE Multiply(s, multiplier, collidables[k])

checkCollisionsWithMultiplier(s) ==
  LET s1 == afterGetEntitiesWith(s, {"Multiplier"})
      s2 == afterGetEntitiesWith(s1, {"Collision"})
      collidables == s2.entityComponentCache[{"Collision"}]
  IN  FoldSeq(LAMBDA a, m : ZoneStep(a, m, collidables), s2,
              s1.entityComponentCache[{"Multiplier"}])

\* A step of a handler, skipped once an exception has escaped
Then(s, Op(_)) == IF s.thrown THEN s ELSE Op(s)

CollisionSystemUpdate(s, dt) ==
  Then(Then(Then(Then(checkBulletCollisions(s),
                      checkPlayerPowerupCollisions),
                 checkOffscreenEntities),
            checkEnemyReachedBottom),
       checkCollisionsWithMultiplier)

(***************************************************************************)
(* World.update, with the systems Game registers                           *)
(***************************************************************************)
GameSystems ==
  <<"RenderSystem", "MovementSystem", "CollisionSystem", "InputSystem",
    "PlayerSystem", "PowerupSystem", "SpawnSystem", "CleanupSystem">>

\* system.update(deltaTime), by the system's class
SystemUpdate(s, name, dt, powerupType) ==
  CASE name = "RenderSystem" -> RenderSystemUpdate(s, dt)
    [] name = "MovementSystem" -> MovementSystemUpdate(s, dt)
    [] name = "CollisionSystem" -> CollisionSystemUpdate(s, dt)
    [] name = "InputSystem" -> InputSystemUpdate(s, dt)
    [] name = "PlayerSystem" -> PlayerSystemUpdate(s, dt)
    [] name = "PowerupSystem" -> PowerupSystemUpdate(s, dt)
    [] name = "SpawnSystem" -> SpawnSystemUpdate(s, dt, powerupType)
    [] name = "CleanupSystem" -> CleanupSystemUpdate(s, dt)

\* What World.update would be if it went through the systems from the last
\* registered to the first
updateInReverse(s, dt, powerupType) ==
  FoldSeq(LAMBDA a, name :
            IF a.thrown THEN a
            ELSE SystemUpdate(Logged(a, Ev("update", name, NoEntity, NoEntity, dt)),
                              name, dt, powerupType),
          s, [i \in 1..Len(s.systems) |-> s.systems[Len(s.systems) + 1 - i]])

\* World.update: every registered system, in order; an exception ends the call
update(s, dt, powerupType) ==
  FoldSeq(LAMBDA a, name :
            IF a.thrown THEN a
            ELSE SystemUpdate(Logged(a, Ev("update", name, NoEntity, NoEntity, dt)),
                              name, dt, powerupType),
          s, s.systems)

(***************************************************************************)
(* Game (src/unnamed/part_007) and the page that drives it (the entry      *)
(* point at src/src/lib/Bullet.ts, lines 26-73).                           *)
(*                                                                         *)
(* animationFrame.current is Game.animationFrameId: "none" is null,        *)
(* "pending" a callback the browser has still to run, "fired" the handle   *)
(* of a callback that has run.  animationFrame.others counts the pending   *)
(* callbacks whose handle Game has overwritten.                            *)
(***************************************************************************)
MultiplierValue == 5
PlayerSize == 50
PlayerHealth == 100
PlayerBottomGap == 60
ZoneWidth == 400
ZoneHeight == 1

\* The fields as their initialisers leave them, before the constructor
NewState ==
  [entities |-> <<>>, components |-> [e \in {} |-> NoComponents],
   entityComponentCache |-> EmptyCache, cacheValid |-> FALSE,
   nextId |-> 0, systems |-> <<>>,
   lastEnemySpawnTime |-> 0, lastPowerupSpawnTime |-> 0,
   keyMap |-> {}, inputEntity |-> NoEntity,
   animationFrame |-> NoFrame, thrown |-> FALSE,
   log |-> <<>>, scored |-> <<>>,
   discarded |-> [e \in {} |-> NoComponents]]

\* InputSystem.initialize
initialize(s) ==
  LET s1 == afterGetEntitiesWith(s, {"Input"})
      inputEntities == s1.entityComponentCache[{"Input"}]
  IN  IF inputEntities = <<>>
      THEN [addComponent(createEntity(s1), s1.nextId, "Input", InputComponent)
              EXCEPT !.inputEntity = s1.nextId]
      ELSE [s1 EXCEPT !.inputEntity = inputEntities[1]]

\* World.addSystem; only InputSystem overrides System.initialize
addSystem(s, name) ==
  LET s1 == [s EXCEPT !.systems = Append(@, name)]
  IN  IF name = "InputSystem" THEN initialize(s1) ELSE s1

\* lines 62-75 and 393-413: a new World, and new systems added to it in order
NewWorld(s) ==
  FoldSeq(addSystem,
          [s EXCEPT !.entities = <<>>,
                    !.components = [e \in {} |-> NoComponents],
                    !.entityComponentCache = EmptyCache,
                    !.cacheValid = FALSE,
                    !.systems = <<>>,
                    !.lastEnemySpawnTime = 0,
                    !.lastPowerupSpawnTime = 0,
                    !.keyMap = {},
                    !.inputEntity = NoEntity],
          GameSystems)

\* createBackgroundElements: the bounding box <<x, y, width, height>> that
\* BackgroundFactory.addBackgroundToWorld gives each of the six shapes
BackgroundBounds ==
  << <<100, 0, 600, 900>>, <<80, 0, 30, 900>>, <<100, 0, 20, 900>>,
     <<390, 0, 20, 650>>, <<680, 0, 30, 900>>, <<670, 0, 20, 900>> >>

BackgroundBundle(b) ==
  << <<"Background", BackgroundComponent>>,
     <<"Position", PositionComponent(b[1], b[2])>>,
     <<"Size", SizeComponent(b[3], b[4])>> >>

\* lines 92-108: player number i (0-based)
PlayerBundle(i) ==
  << <<"Position", PositionComponent(((i + 1) * canvasWidth) \div 4,
                                     canvasHeight - PlayerBottomGap)>>,
     <<"Size", SizeComponent(PlayerSize, PlayerSize)>>,
     <<"Player", PlayerComponent(((i - 1) * canvasWidth) \div 4, i)>>,
     <<"Health", HealthComponent(PlayerHealth)>>,
     <<"Collision", CollisionComponent("player")>>,
     <<"Sprite", SpriteComponent>>,
     <<"Tag", TagComponent("Player")>> >>

\* lines 112-121: the multiplier zone
ZoneBundle ==
  << <<"Size", SizeComponent(ZoneWidth, ZoneHeight)>>,
     <<"Position", PositionComponent(canvasWidth \div 2 - 200,
                                     (canvasHeight * 2) \div 3)>>,
     <<"Tag", TagComponent("multiplier")>>,
     <<"Collision", CollisionComponent("multiplier")>>,
     <<"Multiplier", MultiplierComponent(MultiplierValue)>>,
     <<"Render", RenderComponent>> >>

\* Game.init (gameInitialized is false at both of its calls)
init(s) ==
  LET s1 == Created(s, << <<"GameState", GameStateComponent>>,
                          <<"Tag", TagComponent("gameState")>> >>)
      s2 == FoldSeq(LAMBDA a, b : Created(a, BackgroundBundle(b)), s1, BackgroundBounds)
      s3 == FoldSeq(LAMBDA a, i : Created(a, PlayerBundle(i)), s2, <<0, 1, 2>>)
  IN  Created(s3, ZoneBundle)

\* The GameStateComponent of the first GameState entity, rewritten by F
WithGameState(s, F(_)) ==
  LET s1 == afterGetEntitiesWith(s, {"GameState"})
      gameStateEntities == s1.entityComponentCache[{"GameState"}]
  IN  IF gameStateEntities # <<>> /\ hasComponent(s1, gameStateEntities[1], "GameState")
      THEN SetField(s1, gameStateEntities[1], "GameState",
                    F(getComponent(s1, gameStateEntities[1], "GameState")))
      ELSE s1

\* requestAnimationFrame, and the assignment of its handle
requestFrame(s) ==
  [s EXCEPT !.animationFrame =
     [current |-> "pending",
      others |-> IF @.current = "pending" THEN @.others + 1 ELSE @.others]]

\* Game.pause
pause(s, powerupType) ==
  LET s1 == WithGameState(s, LAMBDA g : [g EXCEPT !.isPaused = TRUE])
      s2 == [s1 EXCEPT !.animationFrame.current = "none"]
  IN  update(s2, 0, powerupType)

\* Game.resetGame
resetGame(s) == init(NewWorld([s EXCEPT !.discarded = s.components]))

RECURSIVE gameLoop(_, _, _)
RECURSIVE resume(_, _)
RECURSIVE processInputState(_, _)

\* lines 462-465 of processInputState: inputComponent was read before the
\* pause toggle ran; after a resetGame made by a nested call it is the
\* component of the discarded World.
handleRestart(s, theInput) ==
  LET justRestarted ==
        IF hasComponent(s, theInput, "Input")
        THEN getComponent(s, theInput, "Input").justRestarted
        ELSE s.discarded[theInput]["Input"].justRestarted
  IN  IF s.thrown THEN s
      ELSE IF justRestarted THEN resetGame(s)
      ELSE s

\* lines 453-460 of processInputState
handlePauseToggle(s, inputComponent, gameState, powerupType) ==
  IF inputComponent.justPaused
  THEN IF gameState.isPaused THEN resume(s, powerupType)
       ELSE pause(s, powerupType)
  ELSE s

\* lines 444-451 of processInputState
withGameStateRead(s, theInput, powerupType) ==
  LET gameStateEntities == s.entityComponentCache[{"GameState"}]
  IN  IF gameStateEntities = <<>> \/ ~hasComponent(s, gameStateEntities[1], "GameState")
      THEN s
      ELSE handleRestart(
             handlePauseToggle(s, getComponent(s, theInput, "Input"),
                               getComponent(s, gameStateEntities[1], "GameState"),
                               powerupType),
             theInput)

\* lines 436-442 of processInputState
withInputRead(s, powerupType) ==
  LET inputEntities == s.entityComponentCache[{"Input"}]
  IN  IF inputEntities = <<>> \/ ~hasComponent(s, inputEntities[1], "Input") THEN s
      ELSE withGameStateRead(afterGetEntitiesWith(s, {"GameState"}),
                             inputEntities[1], powerupType)

\* Game.processInputState
processInputState(s, powerupType) ==
  withInputRead(afterGetEntitiesWith(s, {"Input"}), powerupType)

\* lines 297-306 of resume
clearPlayerFlags(s) ==
  FoldSeq(LAMBDA a, e :
            IF hasComponent(a, e, "Player")
            THEN SetField(a, e, "Player",
                          [getComponent(a, e, "Player") EXCEPT
                             !.isMovingLeft = FALSE,
                             !.isMovingRight = FALSE,
                             !.isShooting = FALSE])
            ELSE a,
          s, s.entityComponentCache[{"Player"}])

\* lines 308-311 of resume
loopIfNoFrame(s, powerupType) ==
  IF s.animationFrame.current = "none" THEN gameLoop(s, 0, powerupType) ELSE s

\* Game.resume
resume(s, powerupType) ==
  loopIfNoFrame(
    clearPlayerFlags(
      afterGetEntitiesWith(
        WithGameState(s, LAMBDA g : [g EXCEPT !.isPaused = FALSE]), {"Player"})),
    powerupType)

\* lines 332-381 of gameLoop: the next frame is requested unless the game is
\* paused
requestNextFrame(s) ==
  IF s.thrown THEN s
  ELSE LET gameStateEntities == s.entityComponentCache[{"GameState"}]
       IN  IF gameStateEntities = <<>> THEN s
           ELSE IF hasComponent(s, gameStateEntities[1], "GameState")
                   /\ getComponent(s, gameStateEntities[1], "GameState").isPaused
           THEN s
           ELSE requestFrame(s)

\* Game.gameLoop; deltaTime is timestamp - lastFrameTime
gameLoop(s, deltaTime, powerupType) ==
  requestNextFrame(
    Then(Then(Then(processInputState(s, powerupType),
                   LAMBDA a : update(a, deltaTime, powerupType)),
              resetTriggers),
         LAMBDA a : afterGetEntitiesWith(a, {"GameState"})))

\* Game.start (gameInitialized is true: the page calls init before start,
\* and resetGame ends with init)
start(s, powerupType) ==
  gameLoop(WithGameState(s, LAMBDA g : [g EXCEPT !.isPaused = FALSE,
                                                 !.isGameOver = FALSE]),
           0, powerupType)

(***************************************************************************)
(* SpecWorld: the World's public interface called in any order.           *)
(***************************************************************************)
WorldTypes == {"Position", "Health"}
WorldKeys == SUBSET WorldTypes
WorldIds == 0..(MaxWorldIds - 1)

\* ret.stale: the call found, for its key, a cached result that was out of date
NoCall == [op |-> "none", key |-> {}, result |-> <<>>, stale |-> FALSE]

InitWorld ==
  /\ entities = <<>>
  /\ components = [e \in {} |-> NoComponents]
  /\ entityComponentCache = EmptyCache
  /\ cacheValid = FALSE
  /\ nextId = 0
  /\ ret = NoCall
  /\ systems = <<>>
  /\ lastEnemySpawnTime = 0
  /\ lastPowerupSpawnTime = 0
  /\ keyMap = {}
  /\ inputEntity = NoEntity
  /\ animationFrame = NoFrame
  /\ thrown = FALSE
  /\ log = <<>>
  /\ scored = <<>>
  /\ pre = NoStore
  /\ frames = 0

\* new World(): the fields' initial values; Entity.nextId is static and is not
\* touched
WorldConstructor(s) ==
  [s EXCEPT !.entities = <<>>,
            !.components = [e \in {} |-> NoComponents],
            !.systems = <<>>,
            !.entityComponentCache = EmptyCache,
            !.cacheValid = FALSE]

\* The caller replaces its World by a new one
CallNewWorld ==
  /\ Commit(WorldConstructor(St))
  /\ UNCHANGED <<pre, frames>>
  /\ ret' = [op |-> "new World", key |-> {}, result |-> <<>>, stale |-> FALSE]

CallCreateEntity ==
  /\ nextId < MaxWorldIds
  /\ Commit(createEntity(St))
  /\ UNCHANGED <<pre, frames>>
  /\ ret' = [op |-> "createEntity", key |-> {}, result |-> <<nextId>>,
               stale |-> FALSE]

CallRemoveEntity ==
  \E e \in WorldIds :
    /\ Commit(removeEntity(St, e))
    /\ UNCHANGED <<pre, frames>>
    /\ ret' = [op |-> "removeEntity", key |-> {}, result |-> <<e>>,
               stale |-> FALSE]

CallAddComponent ==
  \E e \in WorldIds, t \in WorldTypes :
    /\ Commit(addComponent(St, e, t, [type |-> t]))
    /\ UNCHANGED <<pre, frames>>
    /\ ret' = [op |-> "addComponent", key |-> {t}, result |-> <<e>>,
               stale |-> FALSE]

CallRemoveComponent ==
  \E e \in WorldIds, t \in WorldTypes :
    /\ Commit(removeComponent(St, e, t))
    /\ UNCHANGED <<pre, frames>>
    /\ ret' = [op |-> "removeComponent", key |-> {t}, result |-> <<e>>,
               stale |-> FALSE]

CallGetEntitiesWith ==
  \E k \in WorldKeys :
    /\ Commit(afterGetEntitiesWith(St, k))
    /\ UNCHANGED <<pre, frames>>
    /\ ret' = [op |-> "getEntitiesWith", key |-> k,
               result |-> getEntitiesWith(St, k),
               stale |-> /\ k \in DOMAIN entityComponentCache
                         /\ entityComponentCache[k] # getEntitiesWith(St, k)]

NextWorld ==
  \/ CallCreateEntity
  \/ CallRemoveEntity
  \/ CallAddComponent
  \/ CallRemoveComponent
  \/ CallGetEntitiesWith
  \/ CallNewWorld

SpecWorld == InitWorld /\ [][NextWorld]_vars

\* The naive full scan of the store: ids in creation order whose component
\* map holds every type of the key.
NaiveScan(k) ==
  SelectSeq(entities, LAMBDA e : \A t \in k : t \in DOMAIN components[e])

\* C1: the result getEntitiesWith has just returned, and the result it would
\* return now for any key, equal the naive full scan of the store, whatever
\* was cached before the mutations that led here.
C1_QueryCoherence ==
  /\ ret.op = "getEntitiesWith" => ret.result = NaiveScan(ret.key)
  /\ \A k \in WorldKeys : getEntitiesWith(St, k) = NaiveScan(k)

\* C1 witness: a query has just answered for a key whose result had been cached
\* before a mutation made that cached result out of date.
C1_Witness ==
  /\ ret.op = "getEntitiesWith"
  /\ ret.stale
  /\ ret.result # <<>>

(***************************************************************************)
(* SpecMul: the multiplier phase of CollisionSystem, applied to the store  *)
(* Game.init builds with one or two more collidables near the zone.  The   *)
(* zone's clone count and size are drawn too, the game's own among them.   *)
(***************************************************************************)
MaxMultiplierValue == 3

MulValues == 0..MaxMultiplierValue \cup {MultiplierValue}
MulZoneSizes == {SizeComponent(ZoneWidth, ZoneHeight), SizeComponent(60, 20)}
MulYs == {560, 571, 572, 591, 595, 600}

\* Enemies fall in their lane or where a zone has put their clones, powerups
\* in theirs; a bullet leaves a player anywhere across the canvas.
MulCollidables ==
  {EnemyBundle(x, y) : x \in {leftSideX - LaneHalfWidth, 600}, y \in MulYs}
  \cup {PowerupBundle(rightSideX - LaneHalfWidth, y, "basic") : y \in MulYs}
  \cup {BulletBundle(x, y) : x \in {195, 235, 595}, y \in MulYs}

\* The store after new Game(canvas) and init()
InitialStore == init(NewWorld(NewState))

\* The multiplier zone of InitialStore (the entity init creates last)
Zone == InitialStore.nextId - 1

\* Take the program's state from a state record
Start(s) ==
  /\ entities = s.entities
  /\ components = s.components
  /\ entityComponentCache = s.entityComponentCache
  /\ cacheValid = s.cacheValid
  /\ nextId = s.nextId
  /\ systems = s.systems
  /\ lastEnemySpawnTime = s.lastEnemySpawnTime
  /\ lastPowerupSpawnTime = s.lastPowerupSpawnTime
  /\ keyMap = s.keyMap
  /\ inputEntity = s.inputEntity
  /\ animationFrame = s.animationFrame
  /\ thrown = s.thrown
  /\ log = <<>>
  /\ scored = <<>>

InitMul ==
  \E value \in MulValues, size \in MulZoneSizes,
     first \in MulCollidables, second \in MulCollidables \cup {<<>>} :
    /\ LET one == Created(SetField(SetField(InitialStore, Zone, "Multiplier",
                                            MultiplierComponent(value)),
                                   Zone, "Size", size),
                          first)
       IN  Start(IF second = <<>> THEN one ELSE Created(one, second))
    /\ pre = NoStore
    /\ ret = [op |-> "init"]
    /\ frames = 0

\* A handler starts with no exception in flight and nothing observed yet
Fresh == [St EXCEPT !.log = <<>>, !.thrown = FALSE]

MultiplierPhase ==
  /\ Commit(checkCollisionsWithMultiplier(Fresh))
  /\ pre' = St
  /\ ret' = [op |-> "checkCollisionsWithMultiplier"]
  /\ frames' = frames

NextMul == MultiplierPhase

SpecMul == InitMul /\ [][NextMul]_vars

MulRan == ret.op = "checkCollisionsWithMultiplier"

NewEntities == SeqToSet(entities) \ SeqToSet(pre.entities)

\* The zones of a store, and the collidables of the store that overlap one
ZonesOf(s) ==
  {z \in SeqToSet(s.entities) : hasComponent(s, z, "Multiplier") /\ HasBox(s, z)}

OverlappingCollidables(s, z) ==
  {c \in SeqToSet(s.entities) :
     c # z /\ hasComponent(s, c, "Collision") /\ HasBox(s, c) /\ Overlap(s, z, c)}

\* The first entity of the set in the store's (creation) order
FirstOf(s, set) ==
  s.entities[CHOOSE i \in 1..Len(s.entities) :
               /\ s.entities[i] \in set
               /\ \A j \in 1..(i - 1) : s.entities[j] \notin set]

\* What the phase has done, from its log
ClonesOf(c) ==
  {log[i].e : i \in {j \in 1..Len(log) : log[j].ev = "clone" /\ log[j].other = c}}

ConsumedBy(z) ==
  {log[i].e : i \in {j \in 1..Len(log) : log[j].ev = "multiply" /\ log[j].other = z}}

AllClones == UNION {ClonesOf(c) : c \in SeqToSet(pre.entities)}

\* The zone that made clone n
MakerOf(n) ==
  CHOOSE z \in ZonesOf(pre) : \E c \in ConsumedBy(z) : n \in ClonesOf(c)

ValueOf(z) == pre.components[z]["Multiplier"].value

C6_ClonesOutsideVerticalSpan ==
  MulRan =>
    \A n \in AllClones \cap SeqToSet(entities) :
      LET z == MakerOf(n)
          zonePos == pre.components[z]["Position"]
          zoneSize == pre.components[z]["Size"]
          pos == components[n]["Position"]
          size == components[n]["Size"]
      IN  /\ \/ pos.y >= zonePos.y + zoneSize.height
             \/ pos.y + size.height <= zonePos.y
          /\ ~isColliding(zonePos, zoneSize, pos, size)

\* C6 witness: clones have been put above a zone taller than the game's own
C6_Witness ==
  /\ MulRan
  /\ \E n \in AllClones \cap SeqToSet(entities) :
       components[n]["Position"].y + components[n]["Size"].height
         < pre.components[Zone]["Position"].y
  /\ pre.components[Zone]["Size"].height > 1

\* C7, as stated: every clone, the one of index 0 included, has its x within
\* the horizontal extent of the zone that made it.
C7_ClonesWithinZoneWidth ==
  MulRan =>
    \A n \in AllClones \cap SeqToSet(entities) :
      LET z == MakerOf(n)
          zonePos == pre.components[z]["Position"]
          zoneSize == pre.components[z]["Size"]
      IN  /\ zonePos.x <= components[n]["Position"].x
          /\ components[n]["Position"].x <= zonePos.x + zoneSize.width

\* C8: in one run of the phase a zone removes at most one original and makes
\* at most N clones, and nothing it consumes is a clone made in this run.
C8_OnePerZonePerPass ==
  MulRan =>
    \A z \in ZonesOf(pre) :
      /\ Cardinality(ConsumedBy(z)) <= 1
      /\ Cardinality(SeqToSet(pre.entities) \ SeqToSet(entities)) <= 1
      /\ Cardinality(NewEntities) <= ValueOf(z)
      /\ ConsumedBy(z) \cap AllClones = {}
      /\ ConsumedBy(z) \subseteq SeqToSet(pre.entities)

\* C8 witness: two collidables overlapped the zone and one of them is left
C8_Witness ==
  /\ MulRan
  /\ Cardinality(OverlappingCollidables(pre, Zone)) = 2
  /\ Cardinality(ConsumedBy(Zone)) = 1
  /\ Cardinality(OverlappingCollidables(pre, Zone) \cap SeqToSet(entities)) = 1

(***************************************************************************)
(* SpecSpawn: SpawnSystem.update, tick after tick, on the store Game.init  *)
(* builds, with the pause and game-over flags and the two accumulators as  *)
(* play can have left them.                                                *)
(***************************************************************************)
MaxSpawned == 2

SpawnDeltas == {0, 1, Seconds(1), Seconds(10)}
EnemyAccumulators ==
  {0, Seconds(leftSideSpawnInterval) - 1, Seconds(leftSideSpawnInterval)}
PowerupAccumulators ==
  {0, Seconds(rightSideSpawnInterval) - 2, Seconds(rightSideSpawnInterval)}

\* The first GameState entity of InitialStore
GameStateEntity == getEntitiesWith(InitialStore, {"GameState"})[1]

InitSpawn ==
  \E isPaused \in BOOLEAN, isGameOver \in BOOLEAN,
     enemyTime \in EnemyAccumulators, powerupTime \in PowerupAccumulators :
    /\ Start([SetField(InitialStore, GameStateEntity, "GameState",
                       [GameStateComponent EXCEPT !.isPaused = isPaused,
                                                  !.isGameOver = isGameOver])
                EXCEPT !.lastEnemySpawnTime = enemyTime,
                       !.lastPowerupSpawnTime = powerupTime])
    /\ pre = NoStore
    /\ ret = [op |-> "init", deltaTime |-> 0]
    /\ frames = 0

SpawnTick ==
  \E deltaTime \in SpawnDeltas, powerupType \in PowerupTypes :
    /\ nextId < InitialStore.nextId + MaxSpawned
    /\ Commit(SpawnSystemUpdate(Fresh, deltaTime, powerupType))
    /\ pre' = St
    /\ ret' = [op |-> "SpawnSystem.update", deltaTime |-> deltaTime]
    /\ frames' = frames

NextSpawn == SpawnTick

SpecSpawn == InitSpawn /\ [][NextSpawn]_vars

SpawnRan == ret.op = "SpawnSystem.update"

NewWith(ty) == {n \in NewEntities : ty \in DOMAIN components[n]}

\* One lane of C9: the accumulator before and after, its interval in
\* seconds, and the component that marks the lane's entities
LaneAsStated(before, after, interval, ty) ==
  IF before + ret.deltaTime > Seconds(interval)
  THEN after = 0 /\ Cardinality(NewWith(ty)) = 1
  ELSE after = before + ret.deltaTime /\ NewWith(ty) = {}

\* C9: with the game neither paused nor over, each lane's accumulator grows
\* by the tick's delta; when it then strictly exceeds the lane's interval the
\* tick spawns exactly one entity for the lane and resets the accumulator to
\* 0, and when it only equals the interval it spawns nothing; while paused or
\* game over nothing is accumulated and nothing is spawned.
C9_SpawnTiming ==
  SpawnRan =>
    LET gameState == pre.components[GameStateEntity]["GameState"]
    IN  IF gameState.isPaused \/ gameState.isGameOver
        THEN /\ lastEnemySpawnTime = pre.lastEnemySpawnTime
             /\ lastPowerupSpawnTime = pre.lastPowerupSpawnTime
             /\ entities = pre.entities
        ELSE /\ LaneAsStated(pre.lastEnemySpawnTime, lastEnemySpawnTime,
                             leftSideSpawnInterval, "Enemy")
             /\ LaneAsStated(pre.lastPowerupSpawnTime, lastPowerupSpawnTime,
                             rightSideSpawnInterval, "Powerup")
             /\ NewEntities = NewWith("Enemy") \cup NewWith("Powerup")

\* C9 witness: a tick has taken the enemy lane's accumulator from exactly the
\* interval to above it, and has spawned the enemy
C9_Witness ==
  /\ SpawnRan
  /\ pre.lastEnemySpawnTime = Seconds(leftSideSpawnInterval)
  /\ ret.deltaTime > 0
  /\ Cardinality(NewWith("Enemy")) = 1
  /\ lastEnemySpawnTime = 0

(***************************************************************************)
(* SpecGame: the page's handlers on a running game.  The page has built    *)
(* the Game and called init and start; play has gone on to one of the      *)
(* situations of GameScenarios; from there the browser runs animation      *)
(* frames, key events and the three buttons in any order.                  *)
(***************************************************************************)
MaxFrames == 2

FrameDeltas == {1, 2}
Keys == {" ", "p"}

\* Entities play has added to the store: an enemy the zone has cloned and put
\* above itself (it does when a frame of 40 ms carries the enemy's lower edge
\* past the zone's), with a bullet below the zone; an enemy about to touch
\* the zone; an enemy with a bullet reaching it; a powerup with a bullet
\* reaching it; a bullet leaving the canvas at the top.
GameScenarios ==
  { <<>>,
    <<EnemyBundle(385, 567), BulletBundle(330, 603)>>,
    <<EnemyBundle(leftSideX - LaneHalfWidth, 569)>>,
    <<EnemyBundle(leftSideX - LaneHalfWidth, 400), BulletBundle(240, 430)>>,
    <<PowerupBundle(rightSideX - LaneHalfWidth, 400, "rapidFire"),
      BulletBundle(540, 430)>>,
    <<BulletBundle(220, -9)>> }

\* The state once the page has loaded: new Game(canvas), init(), start()
Loaded == start(InitialStore, "basic")

\* The same, once the restart button has been clicked on the running game
Restarted == start(resetGame(Loaded), "basic")

InitGame ==
  \E begun \in {Loaded, Restarted}, extras \in GameScenarios :
    /\ Start(afterGetEntitiesWith(FoldSeq(Created, begun, extras), {"GameState"}))
    /\ pre = NoStore
    /\ ret = [op |-> "start", deltaTime |-> 0]
    /\ frames = 0

\* The keydown listener of InputSystem
KeyDown ==
  \E key \in Keys \ keyMap :
    /\ keyMap' = keyMap \cup {key}
    /\ UNCHANGED <<entities, components, entityComponentCache, cacheValid,
                   nextId, systems, lastEnemySpawnTime, lastPowerupSpawnTime,
                   inputEntity, animationFrame, thrown, log, scored, pre, ret,
                   frames>>

\* The keyup listener of InputSystem
KeyUp ==
  \E key \in keyMap :
    /\ keyMap' = keyMap \ {key}
    /\ UNCHANGED <<entities, components, entityComponentCache, cacheValid,
                   nextId, systems, lastEnemySpawnTime, lastPowerupSpawnTime,
                   inputEntity, animationFrame, thrown, log, scored, pre, ret,
                   frames>>

\* What Math.random can pick in a handler that runs a tick of deltaTime: it
\* is called by spawnPowerup only, which needs the powerup lane to be due.
RandomDraws(deltaTime) ==
  IF SpawnDue(lastPowerupSpawnTime + deltaTime, rightSideSpawnInterval)
  THEN PowerupTypes
  ELSE {"basic"}

\* The browser runs a pending animation-frame callback: the one whose handle
\* Game holds, or one whose handle Game has overwritten
Frame ==
  \E deltaTime \in FrameDeltas, held \in BOOLEAN :
    \E powerupType \in RandomDraws(deltaTime) :
      /\ frames < MaxFrames
      /\ IF held THEN animationFrame.current = "pending"
                 ELSE animationFrame.others > 0
      /\ Commit(gameLoop([Fresh EXCEPT !.animationFrame =
                            IF held THEN [@ EXCEPT !.current = "fired"]
                                    ELSE [@ EXCEPT !.others = @ - 1]],
                         deltaTime, powerupType))
      /\ pre' = St
      /\ ret' = [op |-> "gameLoop", deltaTime |-> deltaTime]
      /\ frames' = frames + 1

\* The click listener of the pause button
PauseButton ==
  \E powerupType \in RandomDraws(0) :
    /\ frames < MaxFrames
    /\ Commit(pause(Fresh, powerupType))
    /\ pre' = St
    /\ ret' = [op |-> "pause", deltaTime |-> 0]
    /\ frames' = frames + 1

\* The click listener of the resume button
ResumeButton ==
  \E powerupType \in RandomDraws(0) :
    /\ frames < MaxFrames
    /\ Commit(resume(Fresh, powerupType))
    /\ pre' = St
    /\ ret' = [op |-> "resume", deltaTime |-> 0]
    /\ frames' = IF animationFrame.current = "none" THEN frames + 1 ELSE frames

\* The click listener of the restart button
RestartButton ==
  \E powerupType \in RandomDraws(0) :
    /\ frames < MaxFrames
    /\ Commit(start(resetGame(Fresh), powerupType))
    /\ pre' = St
    /\ ret' = [op |-> "restart", deltaTime |-> 0]
    /\ frames' = frames + 1

NextGame ==
  \/ KeyDown
  \/ KeyUp
  \/ Frame
  \/ PauseButton
  \/ ResumeButton
  \/ RestartButton

SpecGame == InitGame /\ [][NextGame]_vars

\* The GameStateComponent the systems read in state s
GameStateOf(s) == getComponent(s, getEntitiesWith(s, {"GameState"})[1], "GameState")

\* The handler that has just returned ran World.update to its end
TickCompleted ==
  /\ ~thrown
  /\ \E i \in 1..Len(log) : log[i].ev = "update" /\ log[i].by = "CleanupSystem"

Removals(by) ==
  {log[i].e : i \in {j \in 1..Len(log) : log[j].ev = "removeEntity" /\ log[j].by = by}}

C3_ScoredOncePerEnemy ==
  \A i, j \in 1..Len(scored) : scored[i] = scored[j] => i = j

\* C4, as stated: no system other than CleanupSystem calls removeEntity.
C4_OnlyCleanupRemoves ==
  \A i \in 1..Len(log) : log[i].ev = "removeEntity" => log[i].by = "CleanupSystem"

\* The handler has kept the World it started with
SameWorld == pre # NoStore /\ pre.inputEntity = inputEntity

\* C4, amended: removeEntity is called by CleanupSystem and by the multiplier
\* phase of CollisionSystem, which removes the original it has cloned; no
\* other system or phase calls it, and no entity leaves the World's store but
\* by one of these calls.
C4_CleanupAndMultiplierRemove ==
  /\ \A i \in 1..Len(log) :
       log[i].ev = "removeEntity" =>
         \/ log[i].by = "CleanupSystem"
         \/ /\ log[i].by = "checkCollisionsWithMultiplier"
            /\ \E j \in 1..(i - 1) : log[j].ev = "multiply" /\ log[j].e = log[i].e
  /\ SameWorld =>
       SeqToSet(pre.entities) \ SeqToSet(entities)
         \subseteq Removals("CleanupSystem") \cup Removals("checkCollisionsWithMultiplier")

\* C4 witness: in one tick the multiplier phase has removed the bullet it
\* cloned, and something has left the canvas and been removed by Cleanup
C4_Witness ==
  /\ TickCompleted
  /\ \E b \in Removals("checkCollisionsWithMultiplier") : hasComponent(pre, b, "Bullet")
  /\ SeqToSet(pre.entities) \ SeqToSet(entities) # {}

\* The handler was gameLoop, entered with the game paused and no pause or
\* restart request waiting: its tick is World.update(deltaTime) on the state
\* it was entered in, with deltaTime > 0
PausedTick ==
  /\ ret.op = "gameLoop"
  /\ ret.deltaTime > 0
  /\ GameStateOf(pre).isPaused
  /\ ~getComponent(pre, pre.inputEntity, "Input").justPaused
  /\ ~getComponent(pre, pre.inputEntity, "Input").justRestarted

\* C10, as stated: World.update(dt) with dt > 0 while the game is paused
\* leaves the entity set, every Position, every Health.currentHealth and
\* every Bullet.hit as they were.
C10_PausedTickChangesNothing ==
  PausedTick =>
    /\ entities = pre.entities
    /\ \A e \in SeqToSet(pre.entities) \cap SeqToSet(entities) :
         /\ DOMAIN components[e] = DOMAIN pre.components[e]
         /\ "Position" \in DOMAIN components[e] =>
              components[e]["Position"] = pre.components[e]["Position"]
         /\ "Health" \in DOMAIN components[e] =>
              components[e]["Health"].currentHealth
                = pre.components[e]["Health"].currentHealth
         /\ "Bullet" \in DOMAIN components[e] =>
              components[e]["Bullet"].hit = pre.components[e]["Bullet"].hit

\* ---------------------------------------------------------------------------
\* Cooldown modifiers: World.update on a store whose players hold a modifier
\* that is about to expire, and PowerupSystem.applyRapidFirePowerup
\* ---------------------------------------------------------------------------

\* One behaviour has at most MaxElapsed ticks, which add up to at most
\* MaxElapsed clock steps, and at most MaxApplied powerups are applied in it
MaxElapsed == 4
MaxApplied == 1

\* The time a modifier has left at the start, in clock steps
MaxRemaining == 3

CooldownDeltas == {0, 1, 2}
CooldownMultipliers == {SuperRapidFireMultiplier, RapidFireMultiplier}
CooldownDurations == {2, Seconds(RapidFireSeconds)}

\* The players of a store
PlayersOf(s) == SeqToSet(getEntitiesWith(s, {"Player"}))

\* part_003 lines 86-90: every player has got the modifier of a powerup
WithModifiers(s, multiplier, timeRemaining) ==
  FoldSeq(LAMBDA a, p :
            addComponent(a, p, "CooldownModifier",
                         CooldownModifierComponent(multiplier,
                                                   Seconds(RapidFireSeconds),
                                                   timeRemaining)),
          s, getEntitiesWith(s, {"Player"}))

\* The loaded game, running or paused, some time after the players have
\* picked a powerup up
InitCooldown ==
  \E remaining \in 1..MaxRemaining, multiplier \in CooldownMultipliers,
     paused \in BOOLEAN :
    /\ Start(afterGetEntitiesWith(
               WithModifiers(WithGameState(Loaded,
                               LAMBDA g : [g EXCEPT !.isPaused = paused]),
                             multiplier, remaining),
               {"GameState"}))
    /\ pre = NoStore
    /\ ret = [op |-> "start", deltaTime |-> 0, elapsed |-> 0, applied |-> 0,
              remaining |-> remaining, entity |-> NoEntity,
              multiplier |-> 0, duration |-> 0]
    /\ frames = 0

\* World.update(deltaTime): one tick of every registered system
CooldownTick ==
  \E deltaTime \in CooldownDeltas :
    /\ frames < MaxElapsed
    /\ ret.elapsed + deltaTime <= MaxElapsed
    /\ Commit(update(Fresh, deltaTime, "basic"))
    /\ pre' = St
    /\ ret' = [ret EXCEPT !.op = "update", !.deltaTime = deltaTime,
                          !.elapsed = @ + deltaTime]
    /\ frames' = frames + 1

\* PowerupSystem.applyRapidFirePowerup(entity, duration, multiplier)
ApplyPowerup ==
  \E e \in PlayersOf(St), duration \in CooldownDurations,
     multiplier \in CooldownMultipliers :
    /\ ret.applied < MaxApplied
    /\ Commit(applyRapidFirePowerup(Fresh, e, duration, multiplier))
    /\ pre' = St
    /\ ret' = [ret EXCEPT !.op = "applyRapidFirePowerup", !.applied = @ + 1,
                          !.entity = e, !.multiplier = multiplier,
                          !.duration = duration]
    /\ frames' = frames

NextCooldown ==
  \/ CooldownTick
  \/ ApplyPowerup

SpecCooldown == InitCooldown /\ [][NextCooldown]_vars

\* The entities that held a modifier with time left when the handler began
Holders ==
  IF pre = NoStore THEN {}
  ELSE {e \in SeqToSet(pre.entities) :
          /\ hasComponent(pre, e, "CooldownModifier")
          /\ getComponent(pre, e, "CooldownModifier").timeRemaining > 0}

\* C11, as stated: on every tick of deltaTime a modifier with time left has
\* its timeRemaining reduced by exactly deltaTime, and it is still attached
\* while the time the ticks add up to is less than what it had left.
C11_ReducedByDeltaTimePerTick ==
  ret.op = "update" =>
    \A e \in Holders :
      LET before == getComponent(pre, e, "CooldownModifier").timeRemaining
      IN  /\ before - ret.deltaTime > 0 => hasComponent(St, e, "CooldownModifier")
          /\ hasComponent(St, e, "CooldownModifier") =>
               getComponent(St, e, "CooldownModifier").timeRemaining
                 = before - ret.deltaTime

\* C12: once the ticks since a modifier had `remaining` steps left add up to
\* at least `remaining`, and no powerup has been applied meanwhile, no player
\* holds a CooldownModifier and the query for CooldownModifier returns none
\* of them.
C12_ExpiredAfterRemaining ==
  ret.applied = 0 /\ ret.elapsed >= ret.remaining =>
    \A p \in PlayersOf(St) :
      /\ ~hasComponent(St, p, "CooldownModifier")
      /\ p \notin SeqToSet(getEntitiesWith(St, {"CooldownModifier"}))

\* C12 witness: a tick of the paused game, where PowerupSystem alone counts
\* the time down, has brought the elapsed time to exactly what the modifiers
\* had left, and has removed them
C12_Witness ==
  /\ ret.op = "update"
  /\ ret.applied = 0
  /\ ret.elapsed = ret.remaining
  /\ ret.deltaTime > 0
  /\ GameStateOf(pre).isPaused
  /\ Holders = PlayersOf(pre)
  /\ \A p \in PlayersOf(St) : ~hasComponent(St, p, "CooldownModifier")

\* C13, as stated: applyRapidFirePowerup(entity, duration, m) leaves a
\* modifier whose multiplier is strictly lower than m as it was; in every
\* other case (no modifier, a weaker one, or one with multiplier m) the
\* entity ends with the modifier (m, duration, timeRemaining = duration).
C13_EqualStrengthRefreshes ==
  ret.op = "applyRapidFirePowerup" =>
    IF /\ hasComponent(pre, ret.entity, "CooldownModifier")
       /\ getComponent(pre, ret.entity, "CooldownModifier").bulletCooldownMultiplier
            < ret.multiplier
    THEN /\ hasComponent(St, ret.entity, "CooldownModifier")
         /\ getComponent(St, ret.entity, "CooldownModifier")
              = getComponent(pre, ret.entity, "CooldownModifier")
    ELSE /\ hasComponent(St, ret.entity, "CooldownModifier")
         /\ getComponent(St, ret.entity, "CooldownModifier")
              = CooldownModifierComponent(ret.multiplier, ret.duration, ret.duration)

\* ---------------------------------------------------------------------------
\* Play: frames of the game with the players moved under the lanes, and with
\* an enemy or a powerup next to a player or next to the bottom edge
\* ---------------------------------------------------------------------------

\* The frames of 20 ms for which the right arrow key has been held down
\* before the behaviour starts: a player moves 8 pixels in each
HeldFrames == {0, 15, 42}

\* n frames of 20 ms
RECURSIVE FramesOf(_, _)
FramesOf(s, n) ==
  IF n = 0 THEN s
  ELSE LET next == gameLoop([s EXCEPT !.animationFrame.current = "fired"],
                            1, "basic")
       IN  IF next = next THEN FramesOf(next, n - 1) ELSE s

\* The loaded game after n frames with the right arrow key down
MovedRight(n) ==
  [FramesOf([Loaded EXCEPT !.keyMap = {"ArrowRight"}], n) EXCEPT !.keyMap = {}]

\* The store once CleanupSystem has removed every player: each has been the
\* first player of the store while a powerup ran over it
WithoutPlayers(s) ==
  FoldSeq(removeEntity, s, getEntitiesWith(s, {"Player"}))

\* Entities play has added to the store: an enemy in the left lane down at
\* the players' height; a powerup in the right lane at the same height; an
\* enemy whose lower edge has crossed the bottom edge of the canvas
PlayScenarios ==
  { <<>>,
    <<EnemyBundle(leftSideX - LaneHalfWidth, 815)>>,
    <<PowerupBundle(rightSideX - LaneHalfWidth, 815, "basic")>>,
    <<EnemyBundle(leftSideX - LaneHalfWidth, 898)>>,
    <<EnemyBundle(leftSideX - LaneHalfWidth, 899)>> }

PlayKeys == {{}, {"ArrowRight"}, {"ArrowLeft"}}

InitPlay ==
  \E held \in HeldFrames, knockedOut \in BOOLEAN, extras \in PlayScenarios,
     keys \in PlayKeys :
    /\ Start(afterGetEntitiesWith(
               [FoldSeq(Created,
                        IF knockedOut THEN WithoutPlayers(MovedRight(held))
                                      ELSE MovedRight(held),
                        extras)
                  EXCEPT !.keyMap = keys],
               {"GameState"}))
    /\ pre = NoStore
    /\ ret = [op |-> "start", deltaTime |-> 0]
    /\ frames = 0

NextPlay == Frame

SpecPlay == InitPlay /\ [][NextPlay]_vars

\* The entities of a store that have the component and a rectangle
BoxesWith(s, t) ==
  {e \in SeqToSet(s.entities) : hasComponent(s, e, t) /\ HasBox(s, e)}

\* CollisionSystem runs after MovementSystem, which moves what has a
\* Velocity, and before PlayerSystem, which moves the players: in the tick
\* just run it saw player p where the tick found it, and saw intruder e,
\* which the tick has not removed, where the tick has left it.
TouchedInTick(p, e) ==
  isColliding(getComponent(pre, p, "Position"), getComponent(pre, p, "Size"),
              getComponent(St, e, "Position"), getComponent(St, e, "Size"))

\* Player p has had its health set to 0 in the tick: it is at 0, or
\* CleanupSystem has removed the player for it
KilledInTick(p) ==
  \/ p \in Removals("CleanupSystem")
  \/ /\ hasComponent(St, p, "Health")
     /\ getComponent(St, p, "Health").currentHealth = 0

\* C14, as stated: in a tick in which a player's rectangle overlaps an
\* enemy's while CollisionSystem runs, the player's health is set to 0.
C14_EnemyContactLethal ==
  TickCompleted =>
    \A p \in BoxesWith(pre, "Player"),
       e \in BoxesWith(pre, "Enemy") \cap BoxesWith(St, "Enemy") :
      TouchedInTick(p, e) => KilledInTick(p)

\* C15, as stated: every player, the first of the query or not, whose
\* rectangle overlaps a powerup's in the collision phase has its health set
\* to 0 in that tick.
C15_PowerupContactLethalForAll ==
  TickCompleted =>
    \A p \in BoxesWith(pre, "Player"),
       e \in BoxesWith(pre, "Powerup") \cap BoxesWith(St, "Powerup") :
      TouchedInTick(p, e) => KilledInTick(p)

\* The entities a bullet has hit in the handler
HitByBullet == {log[i].e : i \in {j \in 1..Len(log) : log[j].ev = "damage"}}

\* Enemy e of the store the handler began with had its lower edge at or
\* beyond the bottom edge of the canvas
AtBottom(e) ==
  getComponent(pre, e, "Position").y + getComponent(pre, e, "Size").height
    >= canvasHeight

\* C16, as stated: with frames in which an enemy advances less than its
\* height, once an enemy's lower edge has reached or crossed the bottom edge
\* isGameOver is true no later than the tick in which the enemy is removed.
C16_GameOverWhenBottomReached ==
  TickCompleted =>
    \A e \in BoxesWith(pre, "Enemy") :
      AtBottom(e) /\ e \in Removals("CleanupSystem") \ HitByBullet
        => GameStateOf(St).isGameOver

\* C17, as stated: no tick raises; World.update(dt) runs to its end on every
\* store the game can be in, the one left when CleanupSystem has removed
\* every player included.
C17_NoTickRaises == ~thrown

\* ---------------------------------------------------------------------------
\* The World's interface again: identifiers, removeComponent, removeEntity
\* ---------------------------------------------------------------------------

\* The entities a call has added to the store
CreatedByCall == SeqToSet(entities') \ SeqToSet(entities)

\* C18: Entity.nextId never decreases and every id issued so far is below
\* it; the entity a call creates gets an id at or above it, so above every
\* id issued before, whatever has been removed since and whichever World
\* the entity is created in.
C18_IdsStrictlyIncreasing ==
  [][ /\ nextId' >= nextId
      /\ \A e \in SeqToSet(entities) : e < nextId
      /\ \A e \in CreatedByCall : nextId <= e /\ e < nextId' ]_vars

\* C18 witness: createEntity has just returned id 1 when the entity with id 0
\* was no longer in the store
C18_Witness ==
  /\ ret.op = "createEntity"
  /\ entities = <<1>>
  /\ nextId = 2

\* The entity and the component type of the removeComponent call just made
RemovedFrom == ret'.result[1]
RemovedType == CHOOSE t \in ret'.key : TRUE

\* C19: right after removeComponent(e, T), e has no component of type T, no
\* query whose type list contains T returns e, whatever was cached for the
\* query before, and e's other components are the ones it had.
C19_RemovedComponentAbsent ==
  [][ ret'.op = "removeComponent" =>
        /\ ~hasComponent(St', RemovedFrom, RemovedType)
        /\ \A k \in WorldKeys :
             RemovedType \in k => RemovedFrom \notin SeqToSet(getEntitiesWith(St', k))
        /\ RemovedFrom \in DOMAIN components =>
             /\ RemovedFrom \in DOMAIN components'
             /\ DOMAIN components'[RemovedFrom]
                  = DOMAIN components[RemovedFrom] \ {RemovedType}
             /\ \A u \in DOMAIN components'[RemovedFrom] :
                  components'[RemovedFrom][u] = components[RemovedFrom][u] ]_vars

\* C19 witness: removeComponent has just taken a component off an entity
\* that keeps another one, and the cache, now invalid, still holds a result
\* for a key with the removed type that lists the entity
C19_Witness ==
  /\ ret.op = "removeComponent"
  /\ ~cacheValid
  /\ hasComponent(St, ret.result[1], "Health")
  /\ ret.key = {"Position"}
  /\ \E k \in DOMAIN entityComponentCache :
       /\ "Position" \in k
       /\ ret.result[1] \in SeqToSet(entityComponentCache[k])

\* The entity of the removeEntity or addComponent call just made
CalledOn == ret'.result[1]

\* C20: right after removeEntity(e), e is not in the store, it has no
\* component of any type, and no query returns it; an addComponent on an
\* entity that is no longer in the store changes nothing, and no query
\* returns the entity after it.
C20_RemovedEntityGone ==
  [][ /\ ret'.op = "removeEntity" =>
           /\ CalledOn \notin SeqToSet(entities')
           /\ CalledOn \notin DOMAIN components'
           /\ \A t \in WorldTypes : ~hasComponent(St', CalledOn, t)
           /\ \A k \in WorldKeys : CalledOn \notin SeqToSet(getEntitiesWith(St', k))
      /\ ret'.op = "addComponent" /\ CalledOn \notin SeqToSet(entities) =>
           /\ UNCHANGED <<entities, components, entityComponentCache, cacheValid>>
           /\ \A t \in WorldTypes : ~hasComponent(St', CalledOn, t)
           /\ \A k \in WorldKeys : CalledOn \notin SeqToSet(getEntitiesWith(St', k)) ]_vars

\* C20 witness: addComponent has just been called on entity 0, which had been
\* created and is no longer in the store, while entity 1 is in the store with a component and
\* a query result listing it is cached and valid
C20_Witness ==
  /\ ret.op = "addComponent"
  /\ ret.result = <<0>>
  /\ entities = <<1>>
  /\ cacheValid
  /\ \E k \in DOMAIN entityComponentCache : entityComponentCache[k] = <<1>>

\* ---------------------------------------------------------------------------
\* The scheduler
\* ---------------------------------------------------------------------------

\* The system.update calls of the handler, in the order they were made
UpdatesLogged == SelectSeq(log, LAMBDA v : v.ev = "update")

\* The place of a system in the World's list
PlaceOf(name) == CHOOSE i \in 1..Len(systems) : systems[i] = name

PlayerWidths == {PlayerSize, PlayerSize + 10}

\* world.getComponent(player, "Size").width = width
ResizePlayer ==
  \E p \in PlayersOf(St), width \in PlayerWidths :
    /\ Commit(SetField(Fresh, p, "Size",
                       [getComponent(St, p, "Size") EXCEPT !.width = width]))
    /\ pre' = St
    /\ ret' = [op |-> "resize", deltaTime |-> 0, entity |-> p]
    /\ frames' = frames

NextOwnership ==
  \/ Frame
  \/ ResizePlayer

SpecOwnership == InitGame /\ [][NextOwnership]_vars

\* C22, as stated: no component object is attached to two entities, and a
\* write to a component of one entity leaves the components of every other
\* entity as they were.
C22_ExclusiveOwnership ==
  /\ \A e1, e2 \in SeqToSet(entities) : \A t \in DOMAIN components[e1] :
       e1 # e2 /\ hasComponent(St, e2, t)
         => InstanceOf(St, e1, t) # InstanceOf(St, e2, t)
  /\ ret.op = "resize" =>
       \A e \in SeqToSet(entities) \ {ret.entity} :
         components[e] = pre.components[e]

\* ---------------------------------------------------------------------------
\* CollisionSystem.isColliding on rectangles of the sizes the game has
\* ---------------------------------------------------------------------------
OverlapCoords == {0, 5, 10}
OverlapSides == {1, 5, 10}

\* A rectangle: a Position and a Size
Rects ==
  {[pos |-> PositionComponent(x, y), size |-> SizeComponent(w, h)] :
     x \in OverlapCoords, y \in OverlapCoords,
     w \in OverlapSides, h \in OverlapSides}

NoRect == [pos |-> PositionComponent(0, 0), size |-> SizeComponent(0, 0)]

InitOverlap ==
  /\ Start(NewState)
  /\ pre = NoStore
  /\ ret = [op |-> "none", a |-> NoRect, b |-> NoRect, result |-> FALSE]
  /\ frames = 0

\* One call of isColliding, on any two rectangles
CallIsColliding ==
  \E a \in Rects, b \in Rects :
    /\ ret.op = "none"
    /\ ret' = [op |-> "isColliding", a |-> a, b |-> b,
               result |-> isColliding(a.pos, a.size, b.pos, b.size)]
    /\ UNCHANGED <<entities, components, entityComponentCache, cacheValid,
                   nextId, systems, lastEnemySpawnTime, lastPowerupSpawnTime,
                   keyMap, inputEntity, animationFrame, thrown, log, scored,
                   pre, frames>>

NextOverlap == CallIsColliding

SpecOverlap == InitOverlap /\ [][NextOverlap]_vars

\* The length two intervals [lo1, hi1] and [lo2, hi2] have in common
Common(lo1, hi1, lo2, hi2) == Max(0, Min(hi1, hi2) - Max(lo1, lo2))

\* The area two rectangles have in common
CommonArea(a, b) ==
  Common(a.pos.x, a.pos.x + a.size.width, b.pos.x, b.pos.x + b.size.width)
    * Common(a.pos.y, a.pos.y + a.size.height, b.pos.y, b.pos.y + b.size.height)

\* C23: isColliding(a, b) is true exactly when the rectangles have an area
\* in common, which is when a.x < b.x + b.w, a.x + a.w > b.x, a.y < b.y + b.h
\* and a.y + a.h > b.y; rectangles that share only an edge or a corner do
\* not overlap; and isColliding(b, a) gives the same.
C23_OverlapIsPositiveArea ==
  ret.op = "isColliding" =>
    /\ ret.result = (CommonArea(ret.a, ret.b) > 0)
    /\ ret.result = ( /\ ret.a.pos.x < ret.b.pos.x + ret.b.size.width
                      /\ ret.a.pos.x + ret.a.size.width > ret.b.pos.x
                      /\ ret.a.pos.y < ret.b.pos.y + ret.b.size.height
                      /\ ret.a.pos.y + ret.a.size.height > ret.b.pos.y )
    /\ ret.result = isColliding(ret.b.pos, ret.b.size, ret.a.pos, ret.a.size)

\* C23 witness: a = (0, 0, 10, 10) and b = (10, 0, 10, 10) touch along an
\* edge, and isColliding has answered that they do not overlap
C23_Witness ==
  /\ ret.op = "isColliding"
  /\ ret.a = [pos |-> PositionComponent(0, 0), size |-> SizeComponent(10, 10)]
  /\ ret.b = [pos |-> PositionComponent(10, 0), size |-> SizeComponent(10, 10)]
  /\ ~ret.result

\* ---------------------------------------------------------------------------
\* Bullets: the bullet phase of CollisionSystem alone, and whole ticks, on
\* the loaded game with bullets next to enemies and powerups
\* ---------------------------------------------------------------------------

\* A handler of a behaviour runs at most MaxBulletSteps times
MaxBulletSteps == 2

\* A bullet that an earlier tick has marked as hit and that is still in the
\* store: the tick that marked it was ended by an exception before
\* CleanupSystem ran
AlreadyHit(bundle) ==
  [i \in DOMAIN bundle |->
     IF bundle[i][1] = "Bullet"
     THEN <<"Bullet", BulletComponent(BulletDamage, TRUE)>>
     ELSE bundle[i]]

\* Entities play has added to the store: a bullet on two enemies at once;
\* a bullet on an enemy (a clone, off the left lane) and a powerup at once;
\* two bullets on one enemy; a bullet on nothing; a bullet already marked
\* as hit on an enemy
BulletScenarios ==
  { <<EnemyBundle(235, 400), EnemyBundle(245, 410), BulletBundle(250, 425)>>,
    <<EnemyBundle(520, 400), PowerupBundle(535, 410, "rapidFire"),
      BulletBundle(540, 425)>>,
    <<EnemyBundle(235, 400), BulletBundle(230, 425), BulletBundle(260, 425)>>,
    <<EnemyBundle(235, 400), BulletBundle(300, 425)>>,
    <<EnemyBundle(235, 400), AlreadyHit(BulletBundle(250, 425))>> }
  \cup { <<PowerupBundle(535, 400, kind), BulletBundle(540, 425)>> :
           kind \in PowerupTypes }
  \cup { <<PowerupBundle(535, 400, kind), BulletBundle(530, 425),
           AlreadyHit(BulletBundle(560, 425))>> : kind \in PowerupTypes }

\* The systems of a World whose maker has registered no PowerupSystem
WithoutPowerupSystem(s) ==
  [s EXCEPT !.systems = SelectSeq(@, LAMBDA name : name # "PowerupSystem")]

InitBullets ==
  \E extras \in BulletScenarios, registered \in BOOLEAN :
    /\ Start(afterGetEntitiesWith(
               FoldSeq(Created,
                       IF registered THEN Loaded ELSE WithoutPowerupSystem(Loaded),
                       extras),
               {"GameState"}))
    /\ pre = NoStore
    /\ ret = [op |-> "start", deltaTime |-> 0]
    /\ frames = 0

\* CollisionSystem.checkBulletCollisions, on its own
BulletPhase ==
  /\ frames < MaxBulletSteps
  /\ Commit(checkBulletCollisions(Fresh))
  /\ pre' = St
  /\ ret' = [op |-> "checkBulletCollisions", deltaTime |-> 0]
  /\ frames' = frames + 1

\* World.update(deltaTime)
BulletTick ==
  \E deltaTime \in {0, 1} :
    /\ frames < MaxBulletSteps
    /\ Commit(update(Fresh, deltaTime, "basic"))
    /\ pre' = St
    /\ ret' = [op |-> "update", deltaTime |-> deltaTime]
    /\ frames' = frames + 1

NextBullets ==
  \/ BulletPhase
  \/ BulletTick

SpecBullets == InitBullets /\ [][NextBullets]_vars

\* The places in the log of the hits of bullet b, and of the hits on target t
HitsOf(b) == {i \in 1..Len(log) : log[i].ev = "damage" /\ log[i].other = b}
HitsOn(t) == {i \in 1..Len(log) : log[i].ev = "damage" /\ log[i].e = t}

\* The damage of the hits at the given places of the log
RECURSIVE DamageAt(_)
DamageAt(places) ==
  IF places = {} THEN 0
  ELSE LET i == CHOOSE j \in places : TRUE
       IN  log[i].n + DamageAt(places \ {i})

\* The entities of the store the handler began with that bullet b overlapped
OverlappedBy(b, t) ==
  {e \in BoxesWith(pre, t) : hasComponent(pre, e, "Health") /\ Overlap(pre, b, e)}

\* C24: in the bullet phase a bullet that was not marked as hit takes its
\* damage off the health of at most one entity, an enemy, or a powerup if it
\* overlapped no enemy, and is then marked as hit; a bullet that was marked
\* already takes nothing off; and no health changes but by these hits.
C24_FirstHitWins ==
  ret.op = "checkBulletCollisions" =>
    /\ \A b \in BoxesWith(pre, "Bullet") :
         IF getComponent(pre, b, "Bullet").hit
         THEN HitsOf(b) = {}
         ELSE /\ Cardinality(HitsOf(b)) <= 1
              /\ getComponent(St, b, "Bullet").hit = (HitsOf(b) # {})
              /\ \A i \in HitsOf(b) :
                   /\ log[i].n = getComponent(pre, b, "Bullet").damage
                   /\ \/ log[i].e \in OverlappedBy(b, "Enemy")
                      \/ /\ log[i].e \in OverlappedBy(b, "Powerup")
                         /\ OverlappedBy(b, "Enemy") = {}
    /\ \A t \in SeqToSet(pre.entities) :
         hasComponent(pre, t, "Health") =>
           getComponent(St, t, "Health").currentHealth
             = getComponent(pre, t, "Health").currentHealth - DamageAt(HitsOn(t))

\* C24 witness: the bullet phase has run on a bullet that overlapped two
\* enemies; one of them has lost the bullet's damage, the other nothing
C24_Witness ==
  /\ ret.op = "checkBulletCollisions"
  /\ \E b \in BoxesWith(pre, "Bullet") :
       /\ Cardinality(OverlappedBy(b, "Enemy")) = 2
       /\ Cardinality(HitsOf(b)) = 1
       /\ \E e \in OverlappedBy(b, "Enemy") :
            getComponent(St, e, "Health") = getComponent(pre, e, "Health")

\* ---------------------------------------------------------------------------
\* PowerupSystem.processPowerup called on a player and any entity
\* ---------------------------------------------------------------------------

\* A subtype no case of processPowerup names
PowerupKinds == PowerupTypes \cup {"shield"}

\* What a player may hold when the powerup is processed: no modifier, the
\* modifier of a rapid-fire or super-rapid-fire pickup part of the way
\* through, or a permanent one (the constructor's defaults: multiplier 1,
\* duration and timeRemaining -1)
NoModifier == [bulletCooldownMultiplier |-> 0, duration |-> 0, timeRemaining |-> 0]
HeldModifiers ==
  { NoModifier,
    CooldownModifierComponent(RapidFireMultiplier, Seconds(RapidFireSeconds), 100),
    CooldownModifierComponent(SuperRapidFireMultiplier, Seconds(RapidFireSeconds), 100),
    CooldownModifierComponent(100, -1, -1) }

\* Player p holds modifier m
Holding(s, p, m) ==
  IF m = NoModifier THEN s ELSE addComponent(s, p, "CooldownModifier", m)

\* The powerup of the store (the entity InitPowerup creates last)
ThePowerup == Loaded.nextId

InitPowerup ==
  \E kind \in PowerupKinds, first \in HeldModifiers, others \in HeldModifiers :
    /\ Start(afterGetEntitiesWith(
               Created(FoldSeq(LAMBDA a, p :
                                 Holding(a, p, IF p = getEntitiesWith(Loaded, {"Player"})[1]
                                               THEN first ELSE others),
                               Loaded, getEntitiesWith(Loaded, {"Player"})),
                       PowerupBundle(rightSideX - LaneHalfWidth, 400, kind)),
               {"GameState"}))
    /\ pre = NoStore
    /\ ret = [op |-> "start", player |-> NoEntity, powerup |-> NoEntity]
    /\ frames = 0

\* powerupSystem.processPowerup(playerEntity, powerupEntity), the second
\* argument being the powerup or an entity that has no Powerup component
CallProcessPowerup ==
  \E p \in PlayersOf(St), target \in {ThePowerup, Zone} :
    /\ frames < MaxApplied
    /\ Commit(processPowerup(Fresh, p, target))
    /\ pre' = St
    /\ ret' = [op |-> "processPowerup", player |-> p, powerup |-> target]
    /\ frames' = frames + 1

NextPowerup == CallProcessPowerup

SpecPowerup == InitPowerup /\ [][NextPowerup]_vars

\* The subtype of the entity processPowerup was given, "none" when it has no
\* Powerup component
ProcessedKind ==
  IF hasComponent(pre, ret.powerup, "Powerup")
  THEN getComponent(pre, ret.powerup, "Powerup").powerupType
  ELSE "none"

\* The store but for the observations of the handler
Store(s) == [s EXCEPT !.log = <<>>, !.thrown = FALSE]

\* C25: processPowerup does for subtype rapidFire what applyRapidFirePowerup
\* does with multiplier 0.5 and for superRapidFire what it does with 0.25,
\* both with the duration of 15 s; for normalizedFire the player ends with no
\* CooldownModifier, whatever it held, and nothing else changes.
C25_ProcessPowerupDispatch ==
  ret.op = "processPowerup" =>
    /\ ProcessedKind = "rapidFire" =>
         Store(St) = Store(applyRapidFirePowerup(pre, ret.player, 15 * TicksPerSecond, 50))
    /\ ProcessedKind = "superRapidFire" =>
         Store(St) = Store(applyRapidFirePowerup(pre, ret.player, 15 * TicksPerSecond, 25))
    /\ ProcessedKind = "normalizedFire" =>
         /\ ~hasComponent(St, ret.player, "CooldownModifier")
         /\ \A e \in SeqToSet(pre.entities) :
              /\ e \in DOMAIN components
              /\ \A t \in DOMAIN pre.components[e] \ {"CooldownModifier"} :
                   hasComponent(St, e, t) /\ components[e][t] = pre.components[e][t]
              /\ e # ret.player => components[e] = pre.components[e]

\* C25 witness: processPowerup has been given a normalizedFire powerup and a
\* player that held a permanent modifier, and the player holds none now
C25_Witness ==
  /\ ret.op = "processPowerup"
  /\ ProcessedKind = "normalizedFire"
  /\ hasComponent(pre, ret.player, "CooldownModifier")
  /\ getComponent(pre, ret.player, "CooldownModifier").timeRemaining = -1
  /\ ~hasComponent(St, ret.player, "CooldownModifier")

\* C26: processPowerup given a powerup of subtype basic or of a subtype it
\* does not know, or an entity without a Powerup component, leaves every
\* entity, component and value of the store as it was, and returns without
\* an exception.
C26_UnhandledPowerupHarmless ==
  ret.op = "processPowerup"
    /\ ProcessedKind \notin {"rapidFire", "superRapidFire", "normalizedFire"} =>
      /\ ~thrown
      /\ entities = pre.entities
      /\ components = pre.components

\* C26 witness: processPowerup has been given a powerup of a subtype it does
\* not know and a player that holds a modifier
C26_Witness ==
  /\ ret.op = "processPowerup"
  /\ ProcessedKind = "shield"
  /\ hasComponent(pre, ret.player, "CooldownModifier")
  /\ ~thrown

\* The powerups of the store the handler began with that a bullet's damage
\* has brought to health 0 or less in the handler
DestroyedByBullet ==
  {w \in BoxesWith(pre, "Powerup") :
     /\ hasComponent(pre, w, "Health")
     /\ getComponent(pre, w, "Health").currentHealth > 0
     /\ HitsOn(w) # {}
     /\ getComponent(pre, w, "Health").currentHealth - DamageAt(HitsOn(w)) <= 0}

\* processPowerup has been called for player p and powerup w
ProcessedFor(p, w) ==
  \E i \in 1..Len(log) :
    log[i].ev = "processPowerup" /\ log[i].e = p /\ log[i].other = w

\* The multiplier of the modifier a powerup of the kind gives, 0 for none
GivenMultiplier(kind) ==
  CASE kind = "rapidFire" -> 50
    [] kind = "superRapidFire" -> 25
    [] OTHER -> 0

\* C27: in a tick of a World with a PowerupSystem in which a bullet's damage
\* brings a powerup's health to 0 or less, processPowerup is called for every
\* player and that powerup, so that a player without a modifier holds the
\* powerup's modifier; the bullets that hit the powerup are marked as hit;
\* and at the end of the tick neither the powerup nor these bullets are in
\* the store.
C27_DestroyedPowerupApplied ==
  ret.op = "update" /\ "PowerupSystem" \in SeqToSet(systems) =>
    \A w \in DestroyedByBullet :
      /\ ~thrown
      /\ w \notin SeqToSet(entities)
      /\ \A i \in HitsOn(w) : log[i].other \notin SeqToSet(entities)
      /\ \A p \in PlayersOf(pre) :
           /\ ProcessedFor(p, w)
           /\ ~hasComponent(pre, p, "CooldownModifier")
                /\ GivenMultiplier(getComponent(pre, w, "Powerup").powerupType) # 0 =>
                /\ hasComponent(St, p, "CooldownModifier")
                /\ getComponent(St, p, "CooldownModifier").bulletCooldownMultiplier
                     = GivenMultiplier(getComponent(pre, w, "Powerup").powerupType)

\* C27 witness: a tick in which a bullet has destroyed a superRapidFire
\* powerup, and the three players hold its modifier
C27_Witness ==
  /\ ret.op = "update"
  /\ \E w \in DestroyedByBullet :
       getComponent(pre, w, "Powerup").powerupType = "superRapidFire"
  /\ Cardinality(PlayersOf(St)) = 3
  /\ \A p \in PlayersOf(St) :
       /\ hasComponent(St, p, "CooldownModifier")
       /\ getComponent(St, p, "CooldownModifier").bulletCooldownMultiplier = 25

\* The entities that hold a CooldownModifier in a store
Modified(s) ==
  {e \in DOMAIN s.components : hasComponent(s, e, "CooldownModifier")}

\* C28: in a World with no PowerupSystem registered, a bullet phase in which
\* a bullet destroys a powerup takes the bullet's damage off the powerup's
\* health and marks the bullet as hit, attaches no CooldownModifier to any
\* entity and detaches none, and raises no exception; the tick it is part
\* of runs to its end.
C28_NoPowerupSystemNoEffect ==
  "PowerupSystem" \notin SeqToSet(systems) =>
    /\ ret.op = "checkBulletCollisions" =>
         /\ ~thrown
         /\ Modified(St) = Modified(pre)
         /\ \A e \in SeqToSet(entities) : ~ProcessedFor(e, e)
         /\ \A w \in DestroyedByBullet :
              /\ getComponent(St, w, "Health").currentHealth <= 0
              /\ \A p \in PlayersOf(pre) : ~ProcessedFor(p, w)
              /\ \A i \in HitsOn(w) : getComponent(St, log[i].other, "Bullet").hit
    /\ ret.op = "update" =>
         /\ ~thrown
         /\ DestroyedByBullet # {} =>
              /\ Modified(St) = Modified(pre)
              /\ \E i \in 1..Len(log) :
                   log[i].ev = "update" /\ log[i].by = "CleanupSystem"

\* C28 witness: with no PowerupSystem registered, the bullet phase has
\* destroyed a rapidFire powerup
C28_Witness ==
  /\ "PowerupSystem" \notin SeqToSet(systems)
  /\ ret.op = "checkBulletCollisions"
  /\ \E w \in DestroyedByBullet :
       /\ getComponent(pre, w, "Powerup").powerupType = "rapidFire"
       /\ getComponent(St, w, "Health").currentHealth <= 0

\* ---------------------------------------------------------------------------
\* Sweep: the off-screen sweep of CollisionSystem alone, and whole ticks, on
\* the loaded game with one entity at, over or inside an edge of the
\* playfield
\* ---------------------------------------------------------------------------

\* A handler of a behaviour runs at most MaxSweepSteps times
MaxSweepSteps == 2

\* Where an entity w wide and h high is put: just beyond and just touching
\* each edge of the playfield from outside, and well inside
SweepPlaces(w, h) ==
  { PositionComponent(0 - w - 1, 400), PositionComponent(0 - w, 400),
    PositionComponent(canvasWidth, 400), PositionComponent(canvasWidth + 1, 400),
    PositionComponent(235, 0 - h - 1), PositionComponent(235, 0 - h),
    PositionComponent(235, canvasHeight), PositionComponent(235, canvasHeight + 1),
    PositionComponent(235, 400) }

\* The first player of the loaded game
FirstPlayer == CHOOSE p \in PlayersOf(Loaded) : \A q \in PlayersOf(Loaded) : p <= q

\* The loaded game with one entity put at a place: a new enemy, powerup or
\* bullet, or the first player or the multiplier zone moved there by a
\* client of the World
SweepStores ==
  { Created(Loaded, EnemyBundle(at.x, at.y)) : at \in SweepPlaces(EnemySize, EnemySize) }
  \cup { Created(Loaded, PowerupBundle(at.x, at.y, "rapidFire")) :
           at \in SweepPlaces(EnemySize, EnemySize) }
  \cup { Created(Loaded, BulletBundle(at.x, at.y)) :
           at \in SweepPlaces(BulletSize, BulletSize) }
  \cup { SetField(Loaded, FirstPlayer, "Position", at) :
           at \in SweepPlaces(PlayerSize, PlayerSize) }
  \cup { SetField(Loaded, Zone, "Position", at) :
           at \in SweepPlaces(ZoneWidth, ZoneHeight) }

InitSweep ==
  \E s \in SweepStores :
    /\ Start(afterGetEntitiesWith(s, {"GameState"}))
    /\ pre = NoStore
    /\ ret = [op |-> "start", deltaTime |-> 0]
    /\ frames = 0

\* CollisionSystem.checkOffscreenEntities, on its own
SweepPhase ==
  /\ frames < MaxSweepSteps
  /\ Commit(checkOffscreenEntities(Fresh))
  /\ pre' = St
  /\ ret' = [op |-> "checkOffscreenEntities", deltaTime |-> 0]
  /\ frames' = frames + 1

\* World.update(deltaTime)
SweepTick ==
  \E deltaTime \in {0, 1} :
    /\ frames < MaxSweepSteps
    /\ Commit(update(Fresh, deltaTime, "basic"))
    /\ pre' = St
    /\ ret' = [op |-> "update", deltaTime |-> deltaTime]
    /\ frames' = frames + 1

NextSweep ==
  \/ SweepPhase
  \/ SweepTick

SpecSweep == InitSweep /\ [][NextSweep]_vars

\* The rectangle at position p of size z has no point in common with the
\* playfield rectangle [0, canvasWidth] x [0, canvasHeight]
EntirelyOutside(p, z) ==
  ~( /\ Max(p.x, 0) <= Min(p.x + z.width, canvasWidth)
     /\ Max(p.y, 0) <= Min(p.y + z.height, canvasHeight) )

\* Entity e of a store is one the sweep marks when it is off screen: a
\* bullet, or an enemy or powerup with Health
Markable(s, e) ==
  \/ hasComponent(s, e, "Bullet")
  \/ /\ hasComponent(s, e, "Enemy") \/ hasComponent(s, e, "Powerup")
     /\ hasComponent(s, e, "Health")

\* Entity e carries the sweep's marks in store s
Marked(s, e) ==
  /\ hasComponent(s, e, "Bullet") => getComponent(s, e, "Bullet").hit
  /\ ( /\ hasComponent(s, e, "Enemy") \/ hasComponent(s, e, "Powerup")
       /\ hasComponent(s, e, "Health") )
       => getComponent(s, e, "Health").currentHealth = 0

\* Where MovementSystem, which runs before CollisionSystem, has put entity
\* e of the store the tick found
MovedPlace(e, dt) ==
  LET p == getComponent(pre, e, "Position")
  IN  IF hasComponent(pre, e, "Velocity")
      THEN [p EXCEPT !.x = @ + Travel(getComponent(pre, e, "Velocity").speedX, dt),
                     !.y = @ + Travel(getComponent(pre, e, "Velocity").speedY, dt)]
      ELSE p

\* C29: the off-screen sweep marks an entity with Position and Size (health
\* set to 0 for an enemy or powerup with Health, hit set to true for a
\* bullet) iff its rectangle lies entirely outside the playfield rectangle;
\* an entity at least partly inside keeps its components as they were, and
\* so does every player and every multiplier zone wherever it is.  In a
\* whole tick the entity the sweep has marked is removed by CleanupSystem,
\* and a player or zone that is off screen is still in the store.
C29_OffscreenSweep ==
  /\ ret.op = "checkOffscreenEntities" =>
       /\ ~thrown
       /\ entities = pre.entities
       /\ \A e \in SeqToSet(pre.entities) :
            IF HasBox(pre, e) /\ Markable(pre, e)
               /\ EntirelyOutside(getComponent(pre, e, "Position"),
                                  getComponent(pre, e, "Size"))
            THEN /\ Marked(St, e)
                 /\ getComponent(St, e, "Position") = getComponent(pre, e, "Position")
            ELSE components[e] = pre.components[e]
  /\ (ret.op = "update" /\ TickCompleted) =>
       \A e \in SeqToSet(pre.entities) :
         HasBox(pre, e)
         /\ EntirelyOutside(MovedPlace(e, ret.deltaTime), getComponent(pre, e, "Size"))
         => IF Markable(pre, e)
            THEN e \notin SeqToSet(entities)
            ELSE /\ e \in SeqToSet(entities)
                 /\ hasComponent(pre, e, "Health")
                    => getComponent(St, e, "Health") = getComponent(pre, e, "Health")

\* C29 witness: the sweep has set to 0 the health of an enemy that was one
\* pixel below the bottom edge of the playfield
C29_Witness ==
  /\ ret.op = "checkOffscreenEntities"
  /\ \E e \in BoxesWith(pre, "Enemy") :
       /\ getComponent(pre, e, "Position").y = canvasHeight + 1
       /\ getComponent(pre, e, "Health").currentHealth > 0
       /\ getComponent(St, e, "Health").currentHealth = 0

\* The game of store s is paused or over
Halted(s) ==
  LET gameState == s.components[GameStateEntity]["GameState"]
  IN  gameState.isPaused \/ gameState.isGameOver

\* C30: a SpawnSystem.update(dt) that finds the game paused or over creates
\* no entity, gives out no id, changes no component and leaves both lane
\* accumulators as they were, whatever dt is and however close to their
\* intervals the accumulators are: paused time does not count toward the
\* next spawn.
C30_NoSpawnWhileHalted ==
  SpawnRan /\ Halted(pre) =>
    /\ ~thrown
    /\ entities = pre.entities
    /\ nextId = pre.nextId
    /\ components = pre.components
    /\ lastEnemySpawnTime = pre.lastEnemySpawnTime
    /\ lastPowerupSpawnTime = pre.lastPowerupSpawnTime
    /\ \A i \in 1..Len(log) : log[i].ev # "spawn"

\* C30 witness: a paused game, not over, whose enemy accumulator stood at
\* its interval has been updated with ten seconds, and nothing was spawned
C30_Witness ==
  /\ SpawnRan
  /\ pre.components[GameStateEntity]["GameState"].isPaused
  /\ ~pre.components[GameStateEntity]["GameState"].isGameOver
  /\ pre.lastEnemySpawnTime = Seconds(leftSideSpawnInterval)
  /\ ret.deltaTime = Seconds(10)
  /\ entities = pre.entities
  /\ lastEnemySpawnTime = Seconds(leftSideSpawnInterval)

\* ---------------------------------------------------------------------------
\* Travel: whole ticks of the loaded game with one entity about to reach the
\* multiplier zone, at tick sizes of one and two steps
\* ---------------------------------------------------------------------------

\* A behaviour has at most MaxTravelTicks ticks
MaxTravelTicks == 4

\* Tick sizes, in steps: 20 ms and 40 ms
TravelDeltas == {1, 2}

\* An enemy or a powerup falling in its lane whose bottom edge is one or two
\* pixels above the zone, and a bullet rising under the zone
Travellers ==
  {EnemyBundle(leftSideX - LaneHalfWidth, y) : y \in {568, 569}}
  \cup {PowerupBundle(rightSideX - LaneHalfWidth, y, "basic") : y \in {568, 569}}
  \cup {BulletBundle(420, y) : y \in {601, 605, 608}}

InitTravel ==
  \E mover \in Travellers :
    /\ Start(afterGetEntitiesWith(Created(Loaded, mover), {"GameState"}))
    /\ pre = NoStore
    /\ ret = [op |-> "start", deltaTime |-> 0]
    /\ frames = 0

\* World.update(deltaTime)
TravelTick ==
  \E deltaTime \in TravelDeltas :
    /\ frames < MaxTravelTicks
    /\ Commit(update(Fresh, deltaTime, "basic"))
    /\ pre' = St
    /\ ret' = [op |-> "update", deltaTime |-> deltaTime]
    /\ frames' = frames + 1

NextTravel == TravelTick

SpecTravel == InitTravel /\ [][NextTravel]_vars

\* The vertical speed of entity c when the tick found it (0 without Velocity)
SpeedYOf(c) ==
  IF hasComponent(pre, c, "Velocity") THEN getComponent(pre, c, "Velocity").speedY ELSE 0

\* Clone n, still in the store, lies wholly below zone z, and wholly above it
BelowZone(n, z) ==
  getComponent(St, n, "Position").y
    >= getComponent(pre, z, "Position").y + getComponent(pre, z, "Size").height

AboveZone(n, z) ==
  getComponent(St, n, "Position").y + getComponent(St, n, "Size").height
    <= getComponent(pre, z, "Position").y

\* C31, as stated: the clones a zone makes of an entity that moves down are
\* put below the zone, and those of an entity that moves up are put above
\* it, whatever the size of the tick.
C31_ClonesLeaveInTravelDirection ==
  ret.op = "update" =>
    \A z \in ZonesOf(pre) : \A c \in ConsumedBy(z) :
      \A n \in ClonesOf(c) \cap SeqToSet(entities) :
        /\ SpeedYOf(c) > 0 => BelowZone(n, z)
        /\ SpeedYOf(c) < 0 => AboveZone(n, z)

\* ---------------------------------------------------------------------------
\* Zones: the multiplier phase on the store Game.init builds, to which a
\* client of the World has added a second zone and one or two collidables
\* ---------------------------------------------------------------------------

\* The phase runs at most MaxZonePhases times in a behaviour
MaxZonePhases == 2

\* The second zone: under the game's own, or on top of it
SecondZones ==
  { << <<"Size", size>>,
       <<"Position", PositionComponent(canvasWidth \div 2 - 200, y)>>,
       <<"Tag", TagComponent("multiplier")>>,
       <<"Collision", CollisionComponent("multiplier")>>,
       <<"Multiplier", MultiplierComponent(value)>>,
       <<"Render", RenderComponent>> >> :
      size \in MulZoneSizes, y \in {600, 610}, value \in {1, 2} }

\* Collidables that reach over both zones, over one of them, or over none
ZoneCollidables ==
  {EnemyBundle(leftSideX - LaneHalfWidth, y) : y \in {560, 575, 595}}
  \cup {BulletBundle(235, y) : y \in {595, 605}}

InitZones ==
  \E zone \in SecondZones, first \in ZoneCollidables,
     second \in ZoneCollidables \cup {<<>>}, zoneLast \in BOOLEAN :
    /\ LET some == IF second = <<>> THEN Created(InitialStore, first)
                   ELSE Created(Created(InitialStore, first), second)
       IN  Start(IF zoneLast THEN Created(some, zone)
                 ELSE IF second = <<>> THEN Created(Created(InitialStore, zone), first)
                 ELSE Created(Created(Created(InitialStore, zone), first), second))
    /\ pre = NoStore
    /\ ret = [op |-> "init"]
    /\ frames = 0

\* CollisionSystem.checkCollisionsWithMultiplier, on its own
ZonesPhase ==
  /\ frames < MaxZonePhases
  /\ Commit(checkCollisionsWithMultiplier(Fresh))
  /\ pre' = St
  /\ ret' = [op |-> "checkCollisionsWithMultiplier"]
  /\ frames' = frames + 1

NextZones == ZonesPhase

SpecZones == InitZones /\ [][NextZones]_vars

\* The places in the log where the phase has multiplied original c
MultipliedAt(c) ==
  {i \in 1..Len(log) : log[i].ev = "multiply" /\ log[i].e = c}

\* C32: in one multiplier phase over a store with two or more zones, every
\* original the phase found is multiplied at most once, by one zone, and is
\* cloned as many times as that zone's value and no more, although the later
\* zones walk the list of collidables taken before the removal; nothing is
\* raised.
C32_OneZonePerOriginal ==
  MulRan =>
    /\ ~thrown
    /\ \A c \in SeqToSet(pre.entities) :
         /\ Cardinality(MultipliedAt(c)) <= 1
         /\ \A i \in MultipliedAt(c) :
              /\ c \notin SeqToSet(entities)
              /\ Cardinality(ClonesOf(c)) = log[i].n
              /\ log[i].n = ValueOf(log[i].other)

\* C32 witness: an original overlapped two zones when the phase began, the
\* first of the two has multiplied it, and the second, later in the list of
\* zones, has multiplied nothing
C32_Witness ==
  /\ MulRan
  /\ \E c \in SeqToSet(pre.entities), z1 \in ZonesOf(pre), z2 \in ZonesOf(pre) :
       /\ z1 < z2
       /\ c \in OverlappingCollidables(pre, z1) \cap OverlappingCollidables(pre, z2)
       /\ c \in ConsumedBy(z1)
       /\ ConsumedBy(z2) = {}
       /\ z2 \in SeqToSet(entities)
       /\ Cardinality(ClonesOf(c)) = ValueOf(z1)

\* ---------------------------------------------------------------------------
\* The pause key
\* ---------------------------------------------------------------------------

\* The InputComponent InputSystem writes to in store s
InputOf(s) == getComponent(s, s.inputEntity, "Input")

\* C33, as stated: a frame that finds the 'p' key pressed, in a running game
\* that holds no pause trigger yet, toggles GameState.isPaused for the
\* press, or leaves the press for a later frame to act on: the trigger
\* justPaused still set, or the key still in the key map.
C33_PauseKeyToggles ==
  ( /\ ret.op = "gameLoop"
    /\ ~thrown
    /\ "p" \in pre.keyMap
    /\ ~InputOf(pre).justPaused
    /\ ~GameStateOf(pre).isPaused )
  => \/ GameStateOf(St).isPaused
     \/ InputOf(St).justPaused
     \/ "p" \in keyMap

\* ---------------------------------------------------------------------------
\* Fire: frames of the loaded game with the fire keys, with the time played
\* kept in frames (in steps)
\* ---------------------------------------------------------------------------

\* A behaviour plays for at most MaxFireTime steps: a bullet needs 30 steps
\* to rise from the players to the multiplier zone
MaxFireTime == 28

\* Frame lengths, in steps: 120 ms and 140 ms, which together make 260 ms,
\* and 260 ms, the first whole number of steps that is no less than the
\* shoot cooldown of 0.25 s
FireDeltas == {6, 7, 13}

\* Space is the continuous-fire key, ArrowUp the one that also sets the
\* single-shot trigger
FireKeys == {" ", "ArrowUp"}

InitFire ==
  /\ Start(afterGetEntitiesWith(Loaded, {"GameState"}))
  /\ pre = NoStore
  /\ ret = [op |-> "start", deltaTime |-> 0]
  /\ frames = 0

\* The keydown listener of InputSystem
FireKeyDown ==
  \E key \in FireKeys \ keyMap :
    /\ keyMap' = keyMap \cup {key}
    /\ UNCHANGED <<entities, components, entityComponentCache, cacheValid,
                   nextId, systems, lastEnemySpawnTime, lastPowerupSpawnTime,
                   inputEntity, animationFrame, thrown, log, scored, pre, ret,
                   frames>>

\* The keyup listener of InputSystem
FireKeyUp ==
  \E key \in keyMap :
    /\ keyMap' = keyMap \ {key}
    /\ UNCHANGED <<entities, components, entityComponentCache, cacheValid,
                   nextId, systems, lastEnemySpawnTime, lastPowerupSpawnTime,
                   inputEntity, animationFrame, thrown, log, scored, pre, ret,
                   frames>>

\* The browser runs the pending animation-frame callback, Game.gameLoop
FireFrame ==
  \E deltaTime \in FireDeltas :
    /\ frames + deltaTime <= MaxFireTime
    /\ animationFrame.current = "pending"
    /\ Commit(gameLoop([Fresh EXCEPT !.animationFrame.current = "fired"],
                       deltaTime, "basic"))
    /\ pre' = St
    /\ ret' = [op |-> "gameLoop", deltaTime |-> deltaTime]
    /\ frames' = frames + deltaTime

NextFire ==
  \/ FireKeyDown
  \/ FireKeyUp
  \/ FireFrame

SpecFire == InitFire /\ [][NextFire]_vars

\* The bullets of player p in the store: those above the middle of p, which
\* does not move sideways here
BulletsOf(p) ==
  {b \in BoxesWith(St, "Bullet") :
     getComponent(St, b, "Position").x
       = getComponent(St, p, "Position").x
           + getComponent(St, p, "Size").width \div 2 - BulletSize \div 2}

\* The steps bullet b has flown: it leaves the top of its player and rises
\* by Travel(BulletSpeedY, 1) a step
FlownBy(b, p) ==
  (getComponent(St, b, "Position").y - getComponent(St, p, "Position").y)
    \div Travel(BulletSpeedY, 1)

\* The bullets player p has shot in the frame just run
ShotInFrame(p) ==
  {i \in 1..Len(log) : log[i].ev = "shoot" /\ log[i].other = p}

MaxOverSteps == 3

\* Tick sizes, in steps: 20 ms, and the 500 ms of a frame the browser has
\* held back, which carries an enemy from the bottom edge past the line
\* where checkEnemyReachedBottom ends the game
OverDeltas == {1, 25}

\* Entities play has added: none; an enemy at the bottom edge; the same
\* with a bullet in flight
OverScenarios ==
  { <<>>,
    <<EnemyBundle(leftSideX - LaneHalfWidth, canvasHeight - 1)>>,
    <<EnemyBundle(leftSideX - LaneHalfWidth, canvasHeight - 1), BulletBundle(420, 500)>> }

InitOver ==
  \E extras \in OverScenarios :
    /\ Start(afterGetEntitiesWith(FoldSeq(Created, Loaded, extras), {"GameState"}))
    /\ pre = NoStore
    /\ ret = [op |-> "loaded", deltaTime |-> 0]
    /\ frames = 0

\* World.update(deltaTime)
OverTick ==
  \E deltaTime \in OverDeltas :
    /\ frames < MaxOverSteps
    /\ Commit(update(Fresh, deltaTime, "basic"))
    /\ pre' = St
    /\ ret' = [op |-> "update", deltaTime |-> deltaTime]
    /\ frames' = frames + 1

\* Game.start()
OverStart ==
  /\ frames < MaxOverSteps
  /\ Commit(start(Fresh, "basic"))
  /\ pre' = St
  /\ ret' = [op |-> "start", deltaTime |-> 0]
  /\ frames' = frames + 1

\* The click listener of the restart button: Game.resetGame(), Game.start()
OverRestart ==
  /\ frames < MaxOverSteps
  /\ Commit(start(resetGame(Fresh), "basic"))
  /\ pre' = St
  /\ ret' = [op |-> "restart", deltaTime |-> 0]
  /\ frames' = frames + 1

NextOver ==
  \/ OverTick
  \/ OverStart
  \/ OverRestart

SpecOver == InitOver /\ [][NextOver]_vars

\* C35: a World.update that finds GameState.isGameOver true leaves it true,
\* whatever the size of the tick and whatever is in the store; a handler
\* that finds the game over and leaves it not over is Game.start or the
\* restart that calls Game.resetGame.
C35_GameOverMonotonic ==
  ret.op = "update" /\ GameStateOf(pre).isGameOver => GameStateOf(St).isGameOver

\* C35 witness: a tick of 20 ms has found the game over and has left it
\* over, with no enemy in the store any more
C35_Witness ==
  /\ ret.op = "update"
  /\ ret.deltaTime = 1
  /\ ~thrown
  /\ GameStateOf(pre).isGameOver
  /\ GameStateOf(St).isGameOver
  /\ BoxesWith(St, "Enemy") = {}

\* ---------------------------------------------------------------------------
\* Permanent: ticks of the loaded game whose players hold a permanent
\* CooldownModifier, with a powerup that a bullet is about to destroy
\* ---------------------------------------------------------------------------

\* A behaviour has at most MaxPermanentTicks ticks
MaxPermanentTicks == 3

\* Tick sizes, in steps: none, 20 ms, and the 15 s a rapid-fire pickup lasts
PermanentDeltas == {0, 1, Seconds(RapidFireSeconds)}

\* The multipliers of the permanent modifier: the default of the
\* constructor, and those of the two rapid-fire pickups
PermanentMultipliers == {100, RapidFireMultiplier, SuperRapidFireMultiplier}

\* new CooldownModifierComponent(multiplier): duration and timeRemaining
\* are the constructor's defaults, -1
PermanentModifier(multiplier) == CooldownModifierComponent(multiplier, -1, -1)

\* Entities play has added: none, or a powerup with a bullet on it
PermanentScenarios ==
  { <<>> }
  \cup { <<PowerupBundle(rightSideX - LaneHalfWidth, 400, kind), BulletBundle(540, 425)>> :
           kind \in PowerupTypes }

InitPermanent ==
  \E multiplier \in PermanentMultipliers, extras \in PermanentScenarios,
     paused \in BOOLEAN :
    /\ Start(afterGetEntitiesWith(
               FoldSeq(Created,
                       FoldSeq(LAMBDA a, p :
                                 addComponent(a, p, "CooldownModifier",
                                              PermanentModifier(multiplier)),
                               WithGameState(Loaded,
                                 LAMBDA g : [g EXCEPT !.isPaused = paused]),
                               getEntitiesWith(Loaded, {"Player"})),
                       extras),
               {"GameState"}))
    /\ pre = NoStore
    /\ ret = [op |-> "start", deltaTime |-> 0]
    /\ frames = 0

\* World.update(deltaTime)
PermanentTick ==
  \E deltaTime \in PermanentDeltas :
    /\ frames < MaxPermanentTicks
    /\ Commit(update(Fresh, deltaTime, "basic"))
    /\ pre' = St
    /\ ret' = [op |-> "update", deltaTime |-> deltaTime]
    /\ frames' = frames + 1

NextPermanent == PermanentTick

SpecPermanent == InitPermanent /\ [][NextPermanent]_vars

\* The entities of store s that hold a permanent CooldownModifier
PermanentHolders(s) ==
  {e \in SeqToSet(s.entities) :
     /\ hasComponent(s, e, "CooldownModifier")
     /\ getComponent(s, e, "CooldownModifier").timeRemaining = -1}

\* In the tick just run processPowerup was called for entity e with a
\* powerup that takes a modifier of the given multiplier away: a
\* normalizedFire, or a rapid-fire pickup of a strictly lower multiplier
TakenAwayFrom(e, multiplier) ==
  \E i \in 1..Len(log) :
    /\ log[i].ev = "processPowerup"
    /\ log[i].e = e
    /\ LET kind == getComponent(pre, log[i].other, "Powerup").powerupType
       IN  \/ kind = "normalizedFire"
           \/ GivenMultiplier(kind) # 0 /\ GivenMultiplier(kind) < multiplier

\* C36: a tick leaves a permanent CooldownModifier (timeRemaining = -1) on
\* its entity as it found it, not counted down and not removed, whatever
\* the size of the tick, unless processPowerup was called in the tick for
\* that entity with a normalizedFire powerup or with a rapid-fire powerup
\* of a strictly lower multiplier.
C36_PermanentModifierStays ==
  ret.op = "update" =>
    \A e \in PermanentHolders(pre) \cap SeqToSet(entities) :
      LET m == getComponent(pre, e, "CooldownModifier")
      IN  IF TakenAwayFrom(e, m.bulletCooldownMultiplier)
          THEN e \notin PermanentHolders(St)
          ELSE /\ hasComponent(St, e, "CooldownModifier")
               /\ getComponent(St, e, "CooldownModifier") = m

\* C36 witness: three ticks, the last of them of 15 s, have run on the
\* running game and the players hold the permanent modifier they began with
C36_Witness ==
  /\ ret.op = "update"
  /\ frames = MaxPermanentTicks
  /\ ret.deltaTime = Seconds(RapidFireSeconds)
  /\ ~thrown
  /\ ~GameStateOf(St).isPaused
  /\ Cardinality(PlayersOf(St)) = 3
  /\ \A p \in PlayersOf(St) :
       /\ hasComponent(St, p, "CooldownModifier")
       /\ getComponent(St, p, "CooldownModifier") = PermanentModifier(100)

\* ---------------------------------------------------------------------------
\* Flight: ticks of the loaded game, running, with a bullet in flight; with
\* its players, and after CleanupSystem has removed the last of them
\* ---------------------------------------------------------------------------

\* A behaviour has at most MaxFlightTicks ticks
MaxFlightTicks == 4

\* Tick sizes, in steps: 20 ms and 500 ms
FlightDeltas == {1, 25}

\* Bullets play has left in flight: one that has just left a player, one
\* under the multiplier zone, one under an enemy, and two near the top edge
FlightScenarios ==
  { <<BulletBundle(420, canvasHeight - PlayerBottomGap)>>,
    <<BulletBundle(420, 605)>>,
    <<EnemyBundle(leftSideX - LaneHalfWidth, 400), BulletBundle(240, 431)>>,
    <<BulletBundle(620, 100)>>,
    <<BulletBundle(620, 5)>> }

InitFlight ==
  \E knockedOut \in BOOLEAN, extras \in FlightScenarios :
    /\ Start(afterGetEntitiesWith(
               FoldSeq(Created,
                       IF knockedOut THEN WithoutPlayers(Loaded) ELSE Loaded,
                       extras),
               {"GameState"}))
    /\ pre = NoStore
    /\ ret = [op |-> "start", deltaTime |-> 0]
    /\ frames = 0

\* World.update(deltaTime), deltaTime > 0
FlightTick ==
  \E deltaTime \in FlightDeltas :
    /\ frames < MaxFlightTicks
    /\ Commit(update(Fresh, deltaTime, "basic"))
    /\ pre' = St
    /\ ret' = [op |-> "update", deltaTime |-> deltaTime]
    /\ frames' = frames + 1

NextFlight == FlightTick

SpecFlight == InitFlight /\ [][NextFlight]_vars

\* The rising bullets that the tick just run found and has left in the store
BulletsLeft ==
  {b \in BoxesWith(pre, "Bullet") \cap SeqToSet(entities) :
     hasComponent(pre, b, "Velocity") /\ getComponent(pre, b, "Velocity").speedY < 0}

\* C37, as stated, by the distance a bullet has left to the top edge: a tick
\* with dt > 0 of a game that is not paused removes a rising bullet, or
\* leaves it higher by its speed times dt, not marked as hit and not yet
\* over the top edge of the playfield; a bullet can be left so only finitely
\* often, hence every bullet is at last removed.
C37_BulletsEventuallyRemoved ==
  ( ret.op = "update" /\ ret.deltaTime > 0 /\ ~GameStateOf(pre).isPaused ) =>
    \A b \in BulletsLeft :
      /\ getComponent(St, b, "Position").y
           = getComponent(pre, b, "Position").y
               + Travel(getComponent(pre, b, "Velocity").speedY, ret.deltaTime)
      /\ ~getComponent(St, b, "Bullet").hit
      /\ getComponent(St, b, "Position").y + getComponent(St, b, "Size").height >= 0

\* ---------------------------------------------------------------------------
\* Order: createEntity, removeEntity, addComponent and getEntitiesWith called
\* in any order on a new World, with the players' component type
\* ---------------------------------------------------------------------------

\* createEntity is called at most MaxOrderIds times
MaxOrderIds == 3

OrderIds == 0..(MaxOrderIds - 1)

\* The keys of the queries: every entity, and the players
OrderKeys == {{}, {"Player"}}

OrderCreateEntity ==
  /\ nextId < MaxOrderIds
  /\ Commit(createEntity(St))
  /\ UNCHANGED <<pre, frames>>
  /\ ret' = [op |-> "createEntity", key |-> {}, result |-> <<nextId>>,
               stale |-> FALSE]

OrderRemoveEntity ==
  \E e \in OrderIds :
    /\ Commit(removeEntity(St, e))
    /\ UNCHANGED <<pre, frames>>
    /\ ret' = [op |-> "removeEntity", key |-> {}, result |-> <<e>>,
                 stale |-> FALSE]

OrderAddComponent ==
  \E e \in OrderIds :
    /\ Commit(addComponent(St, e, "Player", [type |-> "Player"]))
    /\ UNCHANGED <<pre, frames>>
    /\ ret' = [op |-> "addComponent", key |-> {"Player"}, result |-> <<e>>,
                 stale |-> FALSE]

OrderGetEntitiesWith ==
  \E k \in OrderKeys :
    /\ Commit(afterGetEntitiesWith(St, k))
    /\ UNCHANGED <<pre, frames>>
    /\ ret' = [op |-> "getEntitiesWith", key |-> k,
                 result |-> getEntitiesWith(St, k), stale |-> FALSE]

NextOrder ==
  \/ OrderCreateEntity
  \/ OrderRemoveEntity
  \/ OrderAddComponent
  \/ OrderGetEntitiesWith

SpecOrder == InitWorld /\ [][NextOrder]_vars

\* The ids of a list grow strictly from each place to the next
StrictlyIncreasing(list) ==
  \A i \in 1..Len(list), j \in 1..Len(list) : i < j => list[i] < list[j]

\* C38: after any sequence of calls of the World's interface the entity list
\* is in strictly increasing id order, and so is every result of
\* getEntitiesWith, the one just returned and those the cache holds, so
\* that the first entry of a result is the oldest entity that matches.
C38_ResultsInCreationOrder ==
  /\ StrictlyIncreasing(entities)
  /\ \A key \in DOMAIN entityComponentCache :
       StrictlyIncreasing(entityComponentCache[key])
  /\ ret.op = "getEntitiesWith" =>
       /\ StrictlyIncreasing(ret.result)
       /\ \A i \in 1..Len(ret.result) : ret.result[1] <= ret.result[i]

\* C38 witness: the oldest of three players has been removed, and the query
\* for the players has returned the other two, the older of them first
C38_Witness ==
  /\ ret.op = "getEntitiesWith"
  /\ ret.key = {"Player"}
  /\ ret.result = <<1, 2>>
  /\ nextId = MaxOrderIds
====
